---- MODULE Spec2Model ----
(***************************************************************************)
(* VeriSynth Research OS.                                                  *)
(*                                                                         *)
(* Part I   MAKER voting loop      agents/core/maker.py                    *)
(* Part II  Job orchestrator       orchestrator/agent.py                   *)
(* Part III Memory agent           agents/memory/main.enterprise.py        *)
(* Part IV  semantic_chunk         agents/memory/main.enterprise.py        *)
(* Part V   search                 agents/memory/main.enterprise.py        *)
(* Part VI  check_quota            agents/memory/main.enterprise.py        *)
(* Part VII MAKER (app)            app/core/maker.py                       *)
(* Part VIII strict_json_parser    agents/core/maker.py                    *)
(* Part IX  JSON export            app/agents/exporter/agent.py            *)
(* Part X   Connector ingestion    agents/memory/main.enterprise.py,       *)
(*                                 agents/memory/connectors.py             *)
(* Part XI  Folder enumeration     agents/memory/main.enterprise.py        *)
(* Part XII Drive watch channels   agents/memory/main.enterprise.py        *)
(* Part XIII File-share poller     agents/memory/connectors.py             *)
(* Part XIV Verifier voting        app/agents/verifier/agent.py            *)
(*                                                                         *)
(* Each part has its own specifications (MakerSpec; OrchSpec and          *)
(* OrchFairSpec; MemSpec, SeqSpec and SweepSpec; ChunkSpec; SearchSpec and *)
(* RrfSpec; QuotaSpec; AppMakerSpec; StrictJsonSpec; ExportSpec;           *)
(* IngestSpec; ListSpec; WatchSpec; FileShareSpec; VerifySpec); the        *)
(* variables of the other parts stay at their idle value.                  *)
(***************************************************************************)
EXTENDS Integers, Sequences, FiniteSets, Bags, TLC

VARIABLES
    \* ---- Part I: one invocation of first_to_ahead_by_k
    k,              \* parameter k
    max_rounds,     \* parameter max_rounds
    max_tokens,     \* red-flag threshold after lines 52-57
    mk_pc,          \* "idle" | "loop" | "returned" | "raised"
    round_num,      \* rounds of the for loop taken so far
    votes,          \* votes: canonical serialization -> count (keys present only)
    best,           \* best: None (<< >>) or << a canonical serialization >>
    raw,            \* the sampler output of the latest round (NoRaw before)
    result,         \* None (<< >>) or << the returned parsed value >>
    samplerCalls,   \* history: number of sampler(task_input) calls made
    everAhead,      \* history: some round ended with c >= m + k
    rawsSeen,       \* history: the set of outputs the sampler has given
    prevVotes,      \* history: votes as it was before the latest round
    \* ---- Part II: the orchestrator
    jobs,           \* Firestore collection "jobs": job_id -> document or NoDoc
    tasks,          \* the bag of execute_job coroutines created so far
    clock,          \* logical time of datetime.now(): orders created_at stamps
    starts,         \* history: job_id -> number of start_job calls with that id
    request,        \* the JobSpec the clients of this run submit
    \* ---- Part III: the memory agent
    instances,      \* number of server processes that share the store
    docs,           \* Firestore collection "memory_docs": file_id -> document
    chunks,         \* Firestore collection "chunks": a bag (ids are generated)
    hashes,         \* Firestore collection "memory_hashes": the keys present
    procs,          \* the bag of operations in flight (ingest, delete, sweep)
    wallclock,      \* datetime.now(timezone.utc), an instant [day, us]
    returned,       \* None or << the latest answer of an endpoint >>
    \* ---- Part IV: one call of semantic_chunk
    sc_tokens,      \* len(tokens)
    sc_max_tokens,  \* parameter max_tokens
    sc_overlap_tokens, \* parameter overlap_tokens
    sc_start_token, \* start_token
    sc_chunks,      \* chunks: the list built so far
    sc_pc,          \* "idle" | "loop" | "returned"
    \* ---- Part V: one POST /search
    corpus,         \* collection "chunks": chunk id -> its document and scores
    catalog,        \* collection "memory_docs": file_id -> document
    sreq,           \* the SearchRequest
    sr_ranked,      \* None or << what hybrid_search / vector_search returned >>
    sr_response,    \* None or << the response >>
    \* ---- Part VI: the rate limiter of one memory agent process
    quota_tracker,  \* quota_tracker: [count, reset_at]
    q_now,          \* datetime.now(timezone.utc), in ticks
    q_admitted,     \* history: calls admitted since the latest reset
    q_outcome,      \* history: "none" | "admitted" | "rejected", the latest call
    \* ---- Part VII: one call of MAKER.first_to_ahead_by_k (app.core.maker)
    am_agents,      \* what each agent does when it runs
    am_k,           \* k
    am_max_concurrent, \* config.max_concurrent
    am_tasks,       \* per task: "waiting" | "running" | "done" | "cancelled"
    am_results,     \* results: per agent None or << its AgentResult >>
    completion_order, \* completion_order
    am_pc,          \* "idle" | "sleep" | "returned" | "raised"
    am_returned,    \* None or << the AgentResult returned >>
    am_timed_out,   \* the TimeoutError of asyncio.timeout was caught
    \* ---- Part VIII: one call of strict_json_parser (agents.core.maker)
    sj_response,    \* response
    sj_i,           \* i, the index the loop looks at next (-1: none left)
    brace_count,    \* brace_count
    sj_end,         \* end
    sj_pc,          \* "idle" | "scan" | "returned" | "raised"
    sj_returned,    \* None or << the model instance returned >>
    \* ---- Part IX: one JSON export by ExporterAgent and its parse by the client
    ex_data,        \* request.data
    ex_options,     \* request.options: None (no "indent") or << its "indent" >>
    ex_json,        \* None or << ExportResult.data >>
    ex_parsed,      \* None or << json.loads(result.data) >>
    ex_pc,          \* "idle" | "request" | "exported" | "parsed"
    \* ---- Part X: the ingestion of one file that arrives by a connector
    ig_path,        \* "drive" | "gcs" | "email": the connector
    ig_mime_type,   \* mime_type
    ig_extractor_ok, \* the extractor of the media type does not raise
    ig_content,     \* the length of the text the file holds, in chunks
    ig_text,        \* None or << the length of extract_text's result >>
    ig_pc,          \* "idle" | "start" | "doc" | "chunk" | "hash" | "done"
    ig_i,           \* i of the loop over the chunks
    ig_doc,         \* memory_docs: None or << chunk_count of the document >>
    ig_chunks,      \* chunks: the number of chunks of the document
    ig_hash,        \* memory_hashes holds the content hash
    \* ---- Part XI: one call of list_drive_files_recursive
    fg_subfolders,  \* Drive: folder -> the folders that have it as a parent
    fg_folder_of,   \* Drive: file -> the folder that holds it
    ld_recursive,   \* parameter recursive
    folders_to_process, \* folders_to_process
    all_files,      \* all_files
    ld_visits,      \* history: the folders that were listed, in order
    ld_pc,          \* "idle" | "loop" | "returned"
    \* ---- Part XII: Drive watch channels
    watch_channels, \* watch_channels: the registered channel records
    wc_stopped,     \* Drive: the channels stopped by channels().stop
    wc_next_id,     \* the next fresh channel id (uuid4)
    wc_now,         \* the clock, in hours
    wc_requests,    \* history: folder -> successful /watch/start requests
    wc_tasks,       \* BackgroundTasks: folders queued for re_ingest_folder
    wc_last,        \* the last notification and its response
    \* ---- Part XIII: the file-share poller
    fs_mtime,       \* file share: matching file -> Some(st_mtime) | None
    fw_watchers,    \* the watcher dicts ever created, in order of creation
    file_share_watchers, \* file_share_watchers[watcher_id]: None | Some(index)
    fw_pollers,     \* the poll_file_share tasks: [pc, watcher]
    fw_last,        \* history: the last scan of a poller
    \* ---- Part XIV: one call of VerifierAgent.verify
    vf_outcomes,    \* verifier -> what its LLM call will produce
    vf_votes,       \* the results gathered so far: verifier -> result
    vf_pc,          \* "idle" | "gather" | "returned" | "failed"
    vf_result       \* the consensus returned: None | Some(consensus)

mkVars   == <<k, max_rounds, max_tokens, mk_pc, round_num, votes, best, raw,
              result, samplerCalls, everAhead, rawsSeen, prevVotes>>
orchVars == <<jobs, tasks, clock, starts, request>>
memVars  == <<instances, docs, chunks, hashes, procs, wallclock, returned>>
vars     == <<k, max_rounds, max_tokens, mk_pc, round_num, votes, best, raw,
              result, samplerCalls, everAhead, rawsSeen, prevVotes,
              jobs, tasks, clock, starts, request,
              instances, docs, chunks, hashes, procs, wallclock, returned,
              sc_tokens, sc_max_tokens, sc_overlap_tokens, sc_start_token,
              sc_chunks, sc_pc,
              corpus, catalog, sreq, sr_ranked, sr_response,
              quota_tracker, q_now, q_admitted, q_outcome,
              am_agents, am_k, am_max_concurrent, am_tasks, am_results, completion_order, am_pc, am_returned,
              am_timed_out,
              sj_response, sj_i, brace_count, sj_end, sj_pc, sj_returned,
              ex_data, ex_options, ex_json, ex_parsed, ex_pc,
              ig_path, ig_mime_type, ig_extractor_ok, ig_content, ig_text, ig_pc, ig_i, ig_doc, ig_chunks, ig_hash,
              fg_subfolders, fg_folder_of, ld_recursive, folders_to_process, all_files, ld_visits, ld_pc,
              watch_channels, wc_stopped, wc_next_id, wc_now, wc_requests, wc_tasks, wc_last,
              fs_mtime, fw_watchers, file_share_watchers, fw_pollers, fw_last,
              vf_outcomes, vf_votes, vf_pc, vf_result>>
chunkVars == <<sc_tokens, sc_max_tokens, sc_overlap_tokens, sc_start_token,
               sc_chunks, sc_pc>>
searchVars == <<corpus, catalog, sreq, sr_ranked, sr_response>>
quotaVars == <<quota_tracker, q_now, q_admitted, q_outcome>>
amVars == <<am_agents, am_k, am_max_concurrent, am_tasks, am_results,
            completion_order, am_pc, am_returned, am_timed_out>>
sjVars == <<sj_response, sj_i, brace_count, sj_end, sj_pc, sj_returned>>
exVars == <<ex_data, ex_options, ex_json, ex_parsed, ex_pc>>
igVars == <<ig_path, ig_mime_type, ig_extractor_ok, ig_content, ig_text, ig_pc, ig_i, ig_doc, ig_chunks, ig_hash>>
ldVars == <<fg_subfolders, fg_folder_of, ld_recursive, folders_to_process, all_files, ld_visits, ld_pc>>
wcVars == <<watch_channels, wc_stopped, wc_next_id, wc_now, wc_requests, wc_tasks, wc_last>>
fwVars == <<fs_mtime, fw_watchers, file_share_watchers, fw_pollers, fw_last>>
vfVars == <<vf_outcomes, vf_votes, vf_pc, vf_result>>
\* The variables of Parts IV and later.
libVars  == <<chunkVars, searchVars, quotaVars, amVars, sjVars, exVars, igVars, ldVars, wcVars, fwVars, vfVars>>

\* Optional values: None is the empty sequence, a value x is <<x>>.
None == << >>
Some(x) == <<x>>

(***************************************************************************)
(* Part I.  MAKER: first_to_ahead_by_k                                     *)
(***************************************************************************)

\* --- bounds of the model
MaxK == 3
MaxRounds == 4

\* --- program constants
PremiumMaxTokens == 1200
DefaultMaxTokens == 750

\* Model names the caller may pass in task_input["model"]; the premium ones
\* contain one of the markers of line 54.
ModelNames == {"gpt-4o-mini", "claude-3-opus", "grok-2"}
IsPremium(model_name) == model_name \in {"claude-3-opus", "grok-2"}

\* Lines 52-57: the threshold when max_tokens is None, the argument otherwise.
DeriveMaxTokens(max_tokens_arg, model_name) ==
    IF max_tokens_arg = None
    THEN IF IsPremium(model_name) THEN PremiumMaxTokens ELSE DefaultMaxTokens
    ELSE max_tokens_arg[1]

\* A parsed object is the sequence of its <<key, value>> pairs in the order
\* the text gave them (a Python dict keeps insertion order); keys are numbered
\* in their lexicographic order.  A sampler output is its length and what the
\* parser makes of it: ok = FALSE (the parser raises RedFlagError) or the object.
ObjAB == << <<1, 1>>, <<2, 1>> >>      \* {"a":1,"b":1}
ObjBA == << <<2, 1>>, <<1, 1>> >>      \* {"b":1,"a":1}
ObjA2 == << <<1, 2>> >>                \* {"a":2}
SamplerOutputs ==
    { [len |-> 13,   ok |-> TRUE,  body |-> ObjAB],
      [len |-> 13,   ok |-> TRUE,  body |-> ObjBA],
      [len |-> 7,    ok |-> TRUE,  body |-> ObjA2],
      [len |-> 13,   ok |-> FALSE, body |-> << >>],    \* oops bad json
      [len |-> 800,  ok |-> TRUE,  body |-> ObjAB],    \* too long for 750 only
      [len |-> 1300, ok |-> TRUE,  body |-> ObjAB] }   \* too long for both thresholds
NoRaw == [len |-> 0, ok |-> FALSE, body |-> << >>]

Range(s) == { s[i] : i \in DOMAIN s }

\* parser(raw): RedFlagError or the parsed value.
ParserRaises(r) == ~r.ok
Parse(r) == r.body

\* json.dumps(parsed, sort_keys=True): the pairs in ascending key order.
Serialize(parsed) ==
    CHOOSE s \in [1..Len(parsed) -> Range(parsed)] :
        /\ Range(s) = Range(parsed)
        /\ \A i, j \in 1..Len(parsed) : i < j => s[i][1] < s[j][1]

\* The red flag of lines 65-67 and 76-77.
TooLong(r, limit) == r.len > limit
RedFlagged(r, limit) == TooLong(r, limit) \/ ParserRaises(r)

SetMax(S) == IF S = {} THEN 0 ELSE CHOOSE x \in S : \A y \in S : y <= x

\* votes[s] of a defaultdict(int) / votes.get(s, 0), without inserting s.
VoteOf(v, s) == IF s \in DOMAIN v THEN v[s] ELSE 0

\* max((votes[v] for v in votes if v != serialized), default=0)
MaxOther(v, serialized) == SetMax({ v[s] : s \in DOMAIN v \ {serialized} })

\* votes[serialized] += 1
AddVote(v, serialized) ==
    [s \in DOMAIN v \cup {serialized} |->
        IF s = serialized THEN VoteOf(v, s) + 1 ELSE v[s]]

\* votes.get(best or "", 0)
BestVotes(v, b) == IF b = None THEN 0 ELSE VoteOf(v, b[1])

\* Line 83: the condition under which the round returns parsed.
WinCondition(b, v, serialized, kk) ==
    b = None \/ v[serialized] >= kk + MaxOther(v, serialized)

LoopOneRoundMore(done, limit) == done <= limit
\* Line 62: the loop takes another round while round_num < max_rounds.
LoopContinues(done, limit) == done < limit

MakerInit ==
    /\ k \in 1..MaxK
    /\ max_rounds \in 1..MaxRounds
    /\ \E a \in {None, Some(10)}, m \in ModelNames : max_tokens = DeriveMaxTokens(a, m)
    /\ mk_pc = "loop"
    /\ round_num = 0
    /\ votes = << >>
    /\ best = None
    /\ raw = NoRaw
    /\ result = None
    /\ samplerCalls = 0
    /\ everAhead = FALSE
    /\ rawsSeen = {}
    /\ prevVotes = << >>

MakerIdle ==
    /\ k = 1
    /\ max_rounds = 1
    /\ max_tokens = DefaultMaxTokens
    /\ mk_pc = "idle"
    /\ round_num = 0
    /\ votes = << >>
    /\ best = None
    /\ raw = NoRaw
    /\ result = None
    /\ samplerCalls = 0
    /\ everAhead = FALSE
    /\ rawsSeen = {}
    /\ prevVotes = << >>

\* One iteration of the for loop, lines 62-89, with the sampler answering r.
Round(r) ==
    /\ mk_pc = "loop"
    /\ LoopContinues(round_num, max_rounds)
    /\ round_num' = round_num + 1
    /\ samplerCalls' = samplerCalls + 1
    /\ raw' = r
    /\ rawsSeen' = rawsSeen \cup {r}
    /\ prevVotes' = votes
    /\ IF RedFlagged(r, max_tokens)
       THEN \* continue
            UNCHANGED <<votes, best, result, mk_pc, everAhead>>
       ELSE LET parsed == Parse(r)
                serialized == Serialize(parsed)
                v == AddVote(votes, serialized)
            IN  /\ votes' = v
                /\ everAhead' = (everAhead \/ v[serialized] >= k + MaxOther(v, serialized))
                /\ IF WinCondition(best, v, serialized, k)
                   THEN /\ result' = Some(parsed)
                        /\ mk_pc' = "returned"
                        /\ best' = best
                   ELSE /\ best' = IF v[serialized] > BestVotes(v, best)
                                   THEN Some(serialized) ELSE best
                        /\ UNCHANGED <<result, mk_pc>>
    /\ UNCHANGED <<k, max_rounds, max_tokens>>
    /\ UNCHANGED orchVars
    /\ UNCHANGED <<memVars, libVars>>

\* Line 91: the loop ran out of rounds.
Exhausted ==
    /\ mk_pc = "loop"
    /\ ~LoopContinues(round_num, max_rounds)
    /\ mk_pc' = "raised"
    /\ UNCHANGED <<k, max_rounds, max_tokens, round_num, votes, best, raw,
                   result, samplerCalls, everAhead, rawsSeen, prevVotes>>
    /\ UNCHANGED orchVars
    /\ UNCHANGED <<memVars, libVars>>

MakerNext == (\E r \in SamplerOutputs : Round(r)) \/ Exhausted

\* ---- Properties of Part I (checked under MakerSpec)

MakerEnded == mk_pc \in {"returned", "raised"}
ValidOutputs == { r \in SamplerOutputs : ~RedFlagged(r, max_tokens) }
\* The count of the returned value's canonical serialization, and of its rivals.
WinnerCount == VoteOf(votes, Serialize(result[1]))
RivalCount == MaxOther(votes, Serialize(result[1]))

\* C1: a value is returned only when, right after its vote was counted, the
\* count c of its canonical serialization is at least k ahead of the largest
\* count m of any other serialization: c >= m + k.
C1_ReturnsOnlyAheadByK ==
    mk_pc = "returned" => WinnerCount >= RivalCount + k

\* C2: when the sampler gives the same valid output on every call, the value
\* is returned after exactly k sampler calls: not before the k-th call, and
\* the k-th call returns it.
C2_QuickWinAfterKCalls ==
    (\E r \in ValidOutputs : rawsSeen = {r}) =>
        /\ samplerCalls <= k
        /\ (mk_pc = "returned") <=> (samplerCalls = k)

\* C3: a call that has ended without any round in which a serialization was
\* k ahead of every other one has ended with the NoConvergence error and has
\* returned no value.
C3_NoConvergenceWithoutWinner ==
    (MakerEnded /\ ~everAhead) => (mk_pc = "raised" /\ result = None)

\* C4: a red-flagged sampler output (too long, or rejected by the parser)
\* leaves the vote table as it was, is not returned and does not end the call
\* with a value; and with a sampler that alternates one valid and one
\* unparseable output the value is returned only once k votes for it have
\* been counted.
C4_RedFlagAbsorbed ==
    samplerCalls > 0 /\ RedFlagged(raw, max_tokens) =>
        votes = prevVotes /\ mk_pc # "returned" /\ result = None
C4_RedFlagAbsorption ==
    /\ C4_RedFlagAbsorbed
    /\ \A v \in ValidOutputs, b \in SamplerOutputs :
          (ParserRaises(b) /\ rawsSeen = {v, b} /\ mk_pc = "returned")
              => VoteOf(votes, Serialize(Parse(v))) >= k

\* C5: the sampler is called at most max_rounds times, one call at a time,
\* red-flagged rounds included, and never again once the call has returned a
\* value or run out of rounds.
C5_SamplerCallsBounded ==
    /\ [](samplerCalls <= max_rounds /\ round_num <= max_rounds)
    /\ [][/\ samplerCalls' \in {samplerCalls, samplerCalls + 1}
          /\ MakerEnded => samplerCalls' = samplerCalls]_vars
\* All max_rounds >= 2 rounds were red-flagged and the loop ran out.
C5_Witness ==
    /\ mk_pc = "raised"
    /\ max_rounds >= 2
    /\ samplerCalls = max_rounds
    /\ RedFlagged(raw, max_tokens)

(***************************************************************************)
(* Part II.  Job orchestrator                                              *)
(*                                                                         *)
(* jobs is the Firestore collection "jobs".  Every write to it is one      *)
(* step: the store is shared with the process's other coroutines, with     *)
(* other dispatcher instances and with readers, none of which the code     *)
(* locks out between two writes.  Progress is counted in tenths (0.1 is 1, *)
(* 1.0 is 10).  A log entry's timestamp is later than every stamp the      *)
(* document holds; it is the entry's ordinal in the document.              *)
(***************************************************************************)

\* --- bounds of the model
MaxJobs == 1
MaxTasks == 2

\* --- program constants
QueueLimit == 10

JobIds == 1..MaxJobs

\* JobSpec: type, verify, and whether user_prefs was given (is not None).
JobSpecs ==
    { [type |-> "research-and-export", verify |-> TRUE,  has_prefs |-> TRUE],
      [type |-> "research-and-export", verify |-> FALSE, has_prefs |-> TRUE],
      [type |-> "data-pipeline",       verify |-> TRUE,  has_prefs |-> TRUE],
      [type |-> "data-pipeline",       verify |-> TRUE,  has_prefs |-> FALSE],
      [type |-> "rag-ingest",          verify |-> TRUE,  has_prefs |-> TRUE],
      [type |-> "verification",        verify |-> TRUE,  has_prefs |-> TRUE],
      [type |-> "verification",        verify |-> TRUE,  has_prefs |-> FALSE],
      [type |-> "custom",              verify |-> TRUE,  has_prefs |-> TRUE] }

TerminalStatus == {"succeeded", "failed", "cancelled"}
ActiveStatus == {"queued", "running"}

\* One stage of a workflow: the update_job_status call that opens it, the
\* worker it calls ("none": no call), the key its answer gets in result, and
\* whether building the call's payload dereferences spec.user_prefs.
Stage(p, m, a, key, prefs) ==
    [progress |-> p, message |-> m, agent |-> a, key |-> key, needs_prefs |-> prefs]

ResearchAndExportAlwaysVerifies(spec) ==
    << Stage(2, "Researching sources", "researcher", "research", FALSE),
       Stage(4, "Ingesting to memory", "none", "", FALSE),
       Stage(6, "Verifying claims", "verifier", "verification", FALSE),
       Stage(8, "Generating deliverables", "exporter", "exports", FALSE) >>
\* execute_research_and_export
ResearchAndExportStages(spec) ==
    << Stage(2, "Researching sources", "researcher", "research", FALSE),
       Stage(4, "Ingesting to memory", "none", "", FALSE) >>
    \o (IF spec.verify
        THEN << Stage(6, "Verifying claims", "verifier", "verification", FALSE) >>
        ELSE << >>)
    \o << Stage(8, "Generating deliverables", "exporter", "exports", FALSE) >>

\* execute_data_pipeline
DataPipelineStages ==
    << Stage(3, "Retrieving data", "data_retriever", "data", FALSE),
       Stage(6, "Transforming data", "transformer", "transform", TRUE),
       Stage(9, "Exporting", "exporter", "exports", FALSE) >>

\* execute_rag_ingest
RagIngestStages == << Stage(5, "Ingesting documents", "memory", "ingested", FALSE) >>

\* execute_verification
VerificationStages == << Stage(5, "Verifying claims", "verifier", "verification", TRUE) >>

SupportsEveryType(spec) == TRUE
\* The dispatch of execute_job, lines 190-199; no workflow for the other types.
Supported(spec) ==
    spec.type \in {"research-and-export", "data-pipeline", "rag-ingest", "verification"}
Stages(spec) ==
    CASE spec.type = "research-and-export" -> ResearchAndExportStages(spec)
      [] spec.type = "data-pipeline"       -> DataPipelineStages
      [] spec.type = "rag-ingest"          -> RagIngestStages
      [] spec.type = "verification"        -> VerificationStages
      [] OTHER                             -> << >>

\* job_doc of start_job, lines 116-124; result and cancelled_at are the fields
\* later updates add (None: the document has no such field).
NewDoc(spec, now) ==
    [spec |-> spec, status |-> "queued", created_at |-> now, progress |-> 0,
     logs |-> << >>, result |-> None, cancelled_at |-> None]

\* An execute_job(job_id, spec) coroutine: its arguments, its position (pc,
\* stage), the result dict it has built (its keys) and the error it caught.
\*   pc: "start"   created, not yet run
\*       "stage"   its next write opens stage `stage`
\*       "await"   the worker call of stage `stage` is in flight
\*       "succeed" its next write is SUCCEEDED
\*       "result"  its next write is the result
\*       "fail"    an exception is on its way to line 208
\*       "done"    finished (its locals are gone)
NewTask(id, spec) ==
    [job_id |-> id, spec |-> spec, pc |-> "start", stage |-> 0, result |-> {},
     error |-> ""]
Finished(t) == [t EXCEPT !.pc = "done", !.stage = 0, !.result = {}, !.error = ""]

\* The coroutines are a bag: two at the same position are not told apart.
Spawn(bag, t) == bag (+) SetToBag({t})
Replace(bag, t, u) == (bag (-) SetToBag({t})) (+) SetToBag({u})
RECURSIVE SpawnAll(_, _)
SpawnAll(bag, ts) ==
    IF ts = << >> THEN bag ELSE SpawnAll(Spawn(bag, Head(ts)), Tail(ts))

\* firestore.ArrayUnion([e]) on field arr.
ArrayUnion(arr, e) == IF e \in Range(arr) THEN arr ELSE Append(arr, e)

StatusUpdateWithoutLog(doc, status, progress, message) ==
    [doc EXCEPT !.status = status, !.progress = progress]
\* The first write of update_job_status, lines 331-346: status, progress and
\* the log entry in one document update.
StatusUpdate(doc, status, progress, message) ==
    [doc EXCEPT !.status = status,
                !.progress = progress,
                !.logs = ArrayUnion(@, [timestamp |-> Len(@) + 1, message |-> message])]

\* The second write of update_job_status, lines 348-349.
ResultUpdate(doc, res) == [doc EXCEPT !.result = Some(res)]

\* The write of cancel_job, lines 167-170.
CancelUpdate(doc, now) ==
    [doc EXCEPT !.status = "cancelled", !.cancelled_at = Some(now)]

Exists(id) == id \in DOMAIN jobs
DocSet(id, doc) == [j \in DOMAIN jobs \cup {id} |-> IF j = id THEN doc ELSE jobs[j]]

\* where("status", "==", "queued").limit(10), in document order.
RECURSIVE FirstN(_, _)
FirstN(S, n) ==
    IF S = {} \/ n = 0 THEN << >>
    ELSE LET m == CHOOSE x \in S : \A y \in S : x <= y
         IN  <<m>> \o FirstN(S \ {m}, n - 1)
Queued == FirstN({ j \in DOMAIN jobs : jobs[j].status = "queued" }, QueueLimit)

OrchInit ==
    /\ jobs = << >>
    /\ tasks = EmptyBag
    /\ clock = 0
    /\ starts = [j \in JobIds |-> 0]
    /\ request \in JobSpecs

OrchIdle ==
    /\ jobs = << >>
    /\ tasks = EmptyBag
    /\ clock = 0
    /\ starts = [j \in JobIds |-> 0]
    /\ request = CHOOSE spec \in JobSpecs : spec.type = "custom"

\* POST /start_job: writes the record with set() and adds the background task.
\* id is the caller-supplied job_id or the generated one; within one run the
\* clients submit one JobSpec (request).
StartJob(id, spec) ==
    /\ BagCardinality(tasks) < MaxTasks
    /\ spec = request
    /\ jobs' = DocSet(id, NewDoc(spec, clock + 1))
    /\ tasks' = Spawn(tasks, NewTask(id, spec))
    /\ clock' = clock + 1
    /\ starts' = [starts EXCEPT ![id] = @ + 1]
    /\ UNCHANGED request
    /\ UNCHANGED mkVars
    /\ UNCHANGED <<memVars, libVars>>

\* POST /cancel_job/{job_id}; update() of a missing document raises.
CancelJob(id) ==
    /\ Exists(id)
    /\ jobs' = [jobs EXCEPT ![id] = CancelUpdate(@, clock)]
    /\ UNCHANGED <<tasks, clock, starts, request>>
    /\ UNCHANGED mkVars
    /\ UNCHANGED <<memVars, libVars>>

\* One tick of process_job_queue, lines 358-369: a task per queued record.
ProcessJobQueue ==
    /\ Queued # << >>
    /\ BagCardinality(tasks) + Len(Queued) <= MaxTasks
    /\ tasks' = SpawnAll(tasks, [i \in 1..Len(Queued) |->
                                    NewTask(Queued[i], jobs[Queued[i]].spec)])
    /\ UNCHANGED <<jobs, clock, starts, request>>
    /\ UNCHANGED mkVars
    /\ UNCHANGED <<memVars, libVars>>

\* Where a task stands once stage i of its workflow is completed.
AfterStage(t, i) ==
    IF i < Len(Stages(t.spec))
    THEN [t EXCEPT !.pc = "stage", !.stage = i + 1]
    ELSE [t EXCEPT !.pc = "succeed", !.stage = i]

\* Where a task stands after the update_job_status that opens stage i: it has
\* gone on to the worker call (or failed building the payload), or past a
\* stage that calls no worker.
AfterOpen(t, i) ==
    LET st == Stages(t.spec)[i] IN
    IF st.agent = "none" THEN AfterStage(t, i)
    ELSE IF st.needs_prefs /\ ~t.spec.has_prefs
    THEN [t EXCEPT !.pc = "fail", !.stage = i, !.error = "AttributeError"]
    ELSE [t EXCEPT !.pc = "await", !.stage = i]

\* The next write of a task that stands at "stage" or "succeed", and where the
\* task stands after it.
NextWrite(doc, t) ==
    IF t.pc = "stage"
    THEN StatusUpdate(doc, "running", Stages(t.spec)[t.stage].progress,
                      Stages(t.spec)[t.stage].message)
    ELSE StatusUpdate(doc, "succeeded", 10, "Job completed successfully")
AfterWrite(t) ==
    IF t.pc = "stage" THEN AfterOpen(t, t.stage)
    ELSE IF t.result # {} THEN [t EXCEPT !.pc = "result"] ELSE Finished(t)

\* execute_job, line 187 and the dispatch of lines 190-199.
AfterBegin(t) ==
    IF Supported(t.spec) THEN AfterStage(t, 0)
    ELSE [t EXCEPT !.pc = "fail", !.error = "Unsupported job type"]
Begin(t) ==
    /\ BagIn(t, tasks)
    /\ t.pc = "start"
    /\ jobs' = [jobs EXCEPT ![t.job_id] =
                    StatusUpdate(@, "running", 1, "Starting job execution")]
    /\ tasks' = Replace(tasks, t, AfterBegin(t))
    /\ UNCHANGED <<clock, starts, request>>
    /\ UNCHANGED mkVars
    /\ UNCHANGED <<memVars, libVars>>

\* A write that directly follows the task's previous write: the update that
\* opens the next stage (and the start of its worker call), or line 202.
Continue(t) ==
    /\ BagIn(t, tasks)
    /\ t.pc \in {"stage", "succeed"}
    /\ jobs' = [jobs EXCEPT ![t.job_id] = NextWrite(@, t)]
    /\ tasks' = Replace(tasks, t, AfterWrite(t))
    /\ UNCHANGED <<clock, starts, request>>
    /\ UNCHANGED mkVars
    /\ UNCHANGED <<memVars, libVars>>

\* call_agent returns the worker's answer (lines 317-319); the coroutine puts
\* it into result and runs on to its next write.
AfterReturn(t) ==
    AfterStage([t EXCEPT !.result = @ \cup {Stages(t.spec)[t.stage].key}], t.stage)
AgentReturns(t) ==
    /\ BagIn(t, tasks)
    /\ t.pc = "await"
    /\ jobs' = [jobs EXCEPT ![t.job_id] = NextWrite(@, AfterReturn(t))]
    /\ tasks' = Replace(tasks, t, AfterWrite(AfterReturn(t)))
    /\ UNCHANGED <<clock, starts, request>>
    /\ UNCHANGED mkVars
    /\ UNCHANGED <<memVars, libVars>>

\* Lines 206-208: FAILED, 0.0, "Job failed: <error>".
FailUpdate(doc, error) == StatusUpdate(doc, "failed", 0, "Job failed: " \o error)

\* call_agent raises (transport error, timeout, raise_for_status); the
\* exception reaches line 208.
AgentFails(t) ==
    /\ BagIn(t, tasks)
    /\ t.pc = "await"
    /\ jobs' = [jobs EXCEPT ![t.job_id] = FailUpdate(@, "HTTPError")]
    /\ tasks' = Replace(tasks, t, Finished(t))
    /\ UNCHANGED <<clock, starts, request>>
    /\ UNCHANGED mkVars
    /\ UNCHANGED <<memVars, libVars>>

\* Line 202, second write: the result.
WriteResult(t) ==
    /\ BagIn(t, tasks)
    /\ t.pc = "result"
    /\ jobs' = [jobs EXCEPT ![t.job_id] = ResultUpdate(@, t.result)]
    /\ tasks' = Replace(tasks, t, Finished(t))
    /\ UNCHANGED <<clock, starts, request>>
    /\ UNCHANGED mkVars
    /\ UNCHANGED <<memVars, libVars>>

\* Line 208 after an exception raised by the coroutine's own code (line 199,
\* or spec.user_prefs being None), which follows a write of its own.
Fail(t) ==
    /\ BagIn(t, tasks)
    /\ t.pc = "fail"
    /\ jobs' = [jobs EXCEPT ![t.job_id] = FailUpdate(@, t.error)]
    /\ tasks' = Replace(tasks, t, Finished(t))
    /\ UNCHANGED <<clock, starts, request>>
    /\ UNCHANGED mkVars
    /\ UNCHANGED <<memVars, libVars>>

OrchNext ==
    \/ \E id \in JobIds, spec \in JobSpecs : StartJob(id, spec)
    \/ \E id \in JobIds : CancelJob(id)
    \/ ProcessJobQueue
    \/ \E t \in BagToSet(tasks) : Begin(t)
    \/ \E t \in BagToSet(tasks) : Continue(t)
    \/ \E t \in BagToSet(tasks) : AgentReturns(t)
    \/ \E t \in BagToSet(tasks) : AgentFails(t)
    \/ \E t \in BagToSet(tasks) : WriteResult(t)
    \/ \E t \in BagToSet(tasks) : Fail(t)

\* ---- Properties of Part II (checked under OrchSpec)

\* The number of coroutines of job id that have started running.
RECURSIVE BagCount(_, _)
BagCount(bag, S) ==
    IF S = {} THEN 0
    ELSE LET t == CHOOSE x \in S : TRUE
         IN  CopiesIn(t, bag) + BagCount(bag, S \ {t})
Executions(id) ==
    BagCount(tasks, { t \in BagToSet(tasks) : t.job_id = id /\ t.pc # "start" })

\* C6: a terminal status is absorbing: once a job's stored status is
\* succeeded, failed or cancelled, no step of an executing workflow, of the
\* queue poller, of cancel_job or of update_job_status changes its status,
\* progress or result.
C6_TerminalAbsorbing ==
    [][\A id \in DOMAIN jobs :
          (jobs[id].status \in TerminalStatus /\ starts'[id] = starts[id]) =>
              /\ jobs'[id].status = jobs[id].status
              /\ jobs'[id].progress = jobs[id].progress
              /\ jobs'[id].result = jobs[id].result]_vars

\* A step in which a coroutine goes from t to u and starts a worker call.
IssuesCall(t, u) ==
    /\ BagIn(t, tasks)
    /\ tasks' = Replace(tasks, t, u)
    /\ u.pc = "await"
    /\ t.pc # "await" \/ t.stage # u.stage

\* C7: once cancel_job has marked a job cancelled, no coroutine of that job
\* starts a further worker call.
C7_NoStageAfterCancel ==
    [][\A t \in BagToSet(tasks) : \A u \in BagToSet(tasks') :
          jobs[t.job_id].cancelled_at # None => ~IssuesCall(t, u)]_vars

\* C8: a job that was submitted once is executed at most once: at most one
\* coroutine takes it from QUEUED to RUNNING and runs its stages.
C8_SingleExecution ==
    \A id \in JobIds : starts[id] = 1 => Executions(id) <= 1

\* C9: start_job with a job_id that already exists leaves the stored record
\* (status, progress, logs, result) as it is and starts no second execution.
C9_StartJobIdempotent ==
    [][\A id \in DOMAIN jobs :
          starts'[id] # starts[id] =>
              /\ jobs'[id].status = jobs[id].status
              /\ jobs'[id].progress = jobs[id].progress
              /\ jobs'[id].logs = jobs[id].logs
              /\ jobs'[id].result = jobs[id].result
              /\ tasks' = tasks]_vars

\* C10: while the status of a job (one record, not resubmitted) is queued or
\* running its stored progress never decreases, and it stays within
\* [0.0, 1.0].
C10_ProgressMonotone ==
    [][\A id \in DOMAIN jobs :
          /\ jobs'[id].progress \in 0..10
          /\ (/\ starts'[id] = starts[id]
              /\ jobs[id].status \in ActiveStatus
              /\ jobs'[id].status \in ActiveStatus)
                => jobs'[id].progress >= jobs[id].progress]_vars

IsPrefix(s, t) == Len(s) <= Len(t) /\ \A i \in 1..Len(s) : t[i] = s[i]

\* C11: the logs of a job are append-only: every stored entry stays at its
\* position in every later state and new entries are only added at the end,
\* in the order of the writes.
C11_LogsAppendOnly ==
    [][\A id \in DOMAIN jobs : IsPrefix(jobs[id].logs, jobs'[id].logs)]_vars

\* The record says that a worker call of the job raised (line 208 logged it).
FailedByWorker(id) ==
    \E i \in DOMAIN jobs[id].logs : jobs[id].logs[i].message = "Job failed: HTTPError"
\* Some coroutine of the job has not finished.
Active(id) == \E t \in BagToSet(tasks) : t.job_id = id /\ t.pc # "done"
LastLog(id) == jobs[id].logs[Len(jobs[id].logs)]

\* C12: once a worker call of a job (submitted once, not cancelled) has
\* raised, no further worker call of that job is started, and when the job's
\* coroutines have finished its status is failed and its last log entry
\* carries the error of the call.
C12_StageFailureAborts ==
    /\ [](\A id \in DOMAIN jobs :
            (/\ starts[id] = 1
             /\ jobs[id].cancelled_at = None
             /\ FailedByWorker(id)
             /\ ~Active(id))
                => /\ jobs[id].status = "failed"
                   /\ LastLog(id).message = "Job failed: HTTPError")
    /\ [][\A t \in BagToSet(tasks) : \A u \in BagToSet(tasks') :
            (/\ starts[t.job_id] = 1
             /\ jobs[t.job_id].cancelled_at = None
             /\ FailedByWorker(t.job_id))
                => ~IssuesCall(t, u)]_vars

\* The worker calls of the two DAG workflows, in DAG order.
C13_Dag(spec) ==
    CASE spec.type = "research-and-export" ->
             IF spec.verify THEN <<"researcher", "verifier", "exporter">>
                            ELSE <<"researcher", "exporter">>
      [] spec.type = "data-pipeline" -> <<"data_retriever", "transformer", "exporter">>
C13_IsDag(spec) == spec.type \in {"research-and-export", "data-pipeline"}
\* The stages of a workflow before stage i that call a worker.
CallsBefore(spec, i) == { j \in 1..(i - 1) : Stages(spec)[j].agent # "none" }

\* C13: within one execution of a research-and-export or data-pipeline job a
\* worker call starts only when every earlier call of the execution has
\* returned, the n-th call goes to the n-th worker of the DAG (researcher,
\* verifier exactly when spec.verify, exporter; data_retriever, transformer,
\* exporter), and an execution that completes has made all of them.
C13_StrictStageOrder ==
    /\ [](\A t \in BagToSet(tasks) :
            (C13_IsDag(t.spec) /\ t.pc \in {"succeed", "result"})
                => Cardinality(t.result) = Len(C13_Dag(t.spec)))
    /\ [][\A t \in BagToSet(tasks) : \A u \in BagToSet(tasks') :
            (C13_IsDag(t.spec) /\ IssuesCall(t, u)) =>
                LET n == Cardinality(u.result) + 1 IN
                /\ u.result = { Stages(u.spec)[j].key : j \in CallsBefore(u.spec, u.stage) }
                /\ n <= Len(C13_Dag(u.spec))
                /\ Stages(u.spec)[u.stage].agent = C13_Dag(u.spec)[n]]_vars
\* The exporter call of a verified research-and-export job is in flight, the
\* researcher and the verifier having returned.
C13_Witness ==
    \E t \in BagToSet(tasks) :
        /\ t.spec.type = "research-and-export" /\ t.spec.verify
        /\ t.pc = "await"
        /\ Stages(t.spec)[t.stage].agent = "exporter"
        /\ t.result = {"research", "verification"}

\* The job's record shows the successful end of execute_job.
Succeeded(id) ==
    /\ jobs[id].status = "succeeded"
    /\ jobs[id].progress = 10
    /\ Len(jobs[id].logs) >= 2
    /\ jobs[id].result # None

\* C14: a submitted job of a supported type eventually reaches status
\* succeeded with progress 1.0, at least 2 log entries and its result stored,
\* unless a worker call of it fails or it is cancelled.
C14_HappyPath ==
    \A id \in JobIds :
        (Exists(id) /\ Supported(jobs[id].spec))
            ~> (/\ Exists(id)
                /\ \/ Succeeded(id)
                   \/ FailedByWorker(id)
                   \/ jobs[id].cancelled_at # None)

\* A worker call of the task is in flight or has returned, or the task stands
\* in a workflow.
C27_InWorkflow(t) == t.pc \in {"stage", "await", "succeed", "result"}

\* C27: a job of type custom ends with the failure of an unsupported type: no
\* coroutine of it enters a workflow or calls a worker, and when its
\* coroutines have finished (the job not cancelled) its status is failed, its
\* progress 0.0 and its last log entry carries the cause.
C27_CustomJobFails ==
    /\ \A t \in BagToSet(tasks) : t.spec.type = "custom" => ~C27_InWorkflow(t)
    /\ \A id \in DOMAIN jobs :
          (/\ jobs[id].spec.type = "custom"
           /\ jobs[id].cancelled_at = None
           /\ ~Active(id))
              => /\ jobs[id].status = "failed"
                 /\ jobs[id].progress = 0
                 /\ LastLog(id).message = "Job failed: Unsupported job type"
\* A custom job, not cancelled, has run to its end.
C27_Witness ==
    \E id \in DOMAIN jobs :
        /\ jobs[id].spec.type = "custom"
        /\ jobs[id].cancelled_at = None
        /\ ~Active(id)
        /\ jobs[id].status = "failed"

\* The status and progress that the transition logged as message m writes.
C29_Writes(spec, m) ==
    IF m = "Starting job execution" THEN {<<"running", 1>>}
    ELSE IF m = "Job completed successfully" THEN {<<"succeeded", 10>>}
    ELSE IF m \in {"Job failed: HTTPError", "Job failed: AttributeError",
                   "Job failed: Unsupported job type"} THEN {<<"failed", 0>>}
    ELSE { <<"running", Stages(spec)[i].progress>> :
              i \in { j \in DOMAIN Stages(spec) : Stages(spec)[j].message = m } }

\* C29: a stage transition writes its log entry in the same record update as
\* its status and progress: a step of a coroutine that changes the stored
\* status or progress appends exactly one log entry, and every step that
\* appends a log entry leaves the record with the status and progress of the
\* transition that the entry reports.
C29_LogWithStatus ==
    [][\A id \in DOMAIN jobs :
          (starts'[id] = starts[id]) =>
              /\ (/\ tasks' # tasks
                  /\ <<jobs'[id].status, jobs'[id].progress>>
                        # <<jobs[id].status, jobs[id].progress>>)
                     => Len(jobs'[id].logs) = Len(jobs[id].logs) + 1
              /\ jobs'[id].logs # jobs[id].logs
                     => /\ Len(jobs'[id].logs) = Len(jobs[id].logs) + 1
                        /\ IsPrefix(jobs[id].logs, jobs'[id].logs)
                        /\ <<jobs'[id].status, jobs'[id].progress>> \in
                             C29_Writes(jobs'[id].spec,
                                        jobs'[id].logs[Len(jobs'[id].logs)].message)]_vars
\* The record of a running job shows the third stage of its workflow with the
\* log entry of that stage last.
C29_Witness ==
    \E id \in DOMAIN jobs :
        /\ jobs[id].status = "running"
        /\ jobs[id].progress = 9
        /\ Len(jobs[id].logs) >= 4
        /\ LastLog(id).message = "Exporting"

\* C30: a job's result is visible together with its success: whenever the
\* stored status is succeeded and the execution that wrote it produced a
\* non-empty result, the record holds that result.
C30_ResultWithSuccess ==
    \A t \in BagToSet(tasks) :
        (/\ t.pc = "result"
         /\ jobs[t.job_id].status = "succeeded")
            => jobs[t.job_id].result = Some(t.result)

(***************************************************************************)
(* Part III.  Memory agent                                                 *)
(*                                                                         *)
(* The store is three Firestore collections.  Every handler is synchronous *)
(* code, so one server process runs one operation at a time; `instances`   *)
(* processes share the store, and between two Firestore calls of one       *)
(* operation the other processes may run theirs.  A content is named by    *)
(* its hash; the content with hash c is chunked into ChunkCount(c) chunks. *)
(* An instant is midnight of day `day` plus `us` microseconds.             *)
(***************************************************************************)

\* --- bounds of the model
MaxContents == 2
MaxInstances == 2
MaxDay == 2
MaxCopies == 2
\* The configured retention in days (the environment's value; 30 if unset).
SOFT_DELETE_RETENTION_DAYS == 1

Contents == 1..MaxContents
Instants == { [day |-> d, us |-> u] : d \in 0..MaxDay, u \in 0..1 }

\* len(semantic_chunk(content)) of the modelled contents: the first is two
\* chunks long, the others one.
ChunkCount(content_hash) == IF content_hash = 1 THEN 2 ELSE 1
\* file_id = content_hash[:16]; the modelled contents differ in these digits.
FileId(content_hash) == content_hash

\* Character codes of the ISO 8601 texts.  The first 19 characters
\* (YYYY-MM-DDTHH:MM:SS) have a fixed width and order as the days do; they
\* are one element, the day.
Plus == 43
Dot == 46
Zero == 48
Colon == 58
Zed == 90

\* datetime.isoformat(): no fraction when microsecond is 0, offset +00:00.
IsoFormat(t) ==
    <<t.day>>
    \o (IF t.us = 0 THEN << >> ELSE <<Dot, Zero, Zero, Zero, Zero, Zero, Zero + t.us>>)
    \o <<Plus, Zero, Zero, Colon, Zero, Zero>>
\* now_iso(): isoformat() with '+00:00' replaced by 'Z'.
NowIso(t) ==
    <<t.day>>
    \o (IF t.us = 0 THEN << >> ELSE <<Dot, Zero, Zero, Zero, Zero, Zero, Zero + t.us>>)
    \o <<Zed>>

\* The order of Firestore on strings: lexicographic on the character codes.
StrLeq(a, b) ==
    LET n == IF Len(a) < Len(b) THEN Len(a) ELSE Len(b)
        diff == { i \in 1..n : a[i] # b[i] }
    IN  IF diff = {} THEN Len(a) <= Len(b)
        ELSE LET i == CHOOSE x \in diff : \A y \in diff : x <= y
             IN  a[i] < b[i]

\* datetime.now(timezone.utc) - timedelta(days=SOFT_DELETE_RETENTION_DAYS)
Cutoff(t) == [day |-> t.day - SOFT_DELETE_RETENTION_DAYS, us |-> t.us]

\* doc_data of process_local_file, lines 670-681; deleted_at is the field the
\* soft delete adds (None: the document has no such field).
NewMemDoc(content_hash) ==
    [content_hash |-> content_hash, chunk_count |-> ChunkCount(content_hash),
     deleted |-> FALSE, deleted_at |-> None]
\* chunk_data, lines 687-695.
NewChunk(file_id, i) == [document_id |-> file_id, chunk_index |-> i]

\* An operation in flight: what it is, the document it works on, its position,
\* the next chunk index, the documents a sweep has still to delete, and the
\* content_hash a delete read from the document.
\*   ingest: "doc" -> "chunk" -> "hash"
\*   delete: "chunks" -> "doc" -> "hash"
\*   sweep:  "next" -> "chunks" -> "doc" -> "hash" -> "next" ...
Proc(op, id, pc, i, todo, hash) ==
    [op |-> op, id |-> id, pc |-> pc, i |-> i, todo |-> todo, hash |-> hash]

DocPut(id, doc) == [d \in DOMAIN docs \cup {id} |-> IF d = id THEN doc ELSE docs[d]]
DocDelete(id) == [d \in DOMAIN docs \ {id} |-> docs[d]]
FirstChunkOf(id) ==
    { ch \in BagToSet(chunks) : ch.document_id = id /\ ch.chunk_index = 0 }
\* The chunks a where("document_id", "==", id) query finds.
ChunksOf(id) == { ch \in BagToSet(chunks) : ch.document_id = id }
BagWithout(bag, S) == [e \in DOMAIN bag \ S |-> bag[e]]
Busy == BagCardinality(procs)

\* The query of cleanup_soft_deleted, lines 1147-1149:
\* deleted == True and deleted_at <= cutoff.isoformat(), in document order.
ExpiredDocs(t) ==
    { id \in DOMAIN docs :
        /\ docs[id].deleted
        /\ docs[id].deleted_at # None
        /\ StrLeq(docs[id].deleted_at[1], IsoFormat(Cutoff(t))) }

\* POST /search: the chunks that match the query, each kept when its document
\* exists and is not soft-deleted (lines 1050-1056).  Query 0 is a term every
\* chunk holds, query c > 0 one that only content c holds; top_k keeps a
\* subset of these.
Queries == 0..MaxContents
Matches(ch, q) == q = 0 \/ ch.document_id = FileId(q)
Search(q) ==
    { ch \in BagToSet(chunks) :
        /\ Matches(ch, q)
        /\ ch.document_id \in DOMAIN docs
        /\ ~docs[ch.document_id].deleted }

\* What an endpoint answers, with the content or document it was called for:
\* process_local_file the number of chunks it stored, delete_document the
\* request it has carried out.
Ingested(content_hash, n) == [op |-> "ingest", id |-> content_hash, value |-> n]
Deleted(id, permanent) ==
    [op |-> IF permanent THEN "hard-delete" ELSE "soft-delete", id |-> id, value |-> 0]

MemInit(n) ==
    /\ instances = n
    /\ docs = << >>
    /\ chunks = EmptyBag
    /\ hashes = {}
    /\ procs = EmptyBag
    /\ wallclock = [day |-> 0, us |-> 0]
    /\ returned = None

MemIdle == MemInit(0)

\* The clock moves on to the next modelled instant.
Tick ==
    /\ wallclock.day < MaxDay \/ wallclock.us = 0
    /\ wallclock' = IF wallclock.us = 0 THEN [wallclock EXCEPT !.us = 1]
                            ELSE [day |-> wallclock.day + 1, us |-> 0]
    /\ UNCHANGED <<instances, docs, chunks, hashes, procs, returned>>
    /\ UNCHANGED <<mkVars, orchVars, libVars>>

HashNeverKnown(content_hash) == FALSE
\* Line 656-657: memory_hashes.document(content_hash).get().exists
KnowsHash(content_hash) == content_hash \in hashes
\* process_local_file up to the dedupe check, lines 637-665: a known hash
\* returns 0, an unknown one goes on to the commit.
IngestCheck(c) ==
    /\ Busy < instances
    /\ IF KnowsHash(c)
       THEN /\ returned' = Some(Ingested(c, 0))
            /\ UNCHANGED procs
       ELSE /\ CopiesIn(NewChunk(FileId(c), 0), chunks) < MaxCopies
            /\ procs' = procs (+) SetToBag({Proc("ingest", FileId(c), "doc", 0, << >>, c)})
            /\ UNCHANGED returned
    /\ UNCHANGED <<instances, docs, chunks, hashes, wallclock>>
    /\ UNCHANGED <<mkVars, orchVars, libVars>>

\* Line 683: memory_docs.document(file_id).set(doc_data).
WriteDoc(p) ==
    /\ BagIn(p, procs)
    /\ p.op = "ingest" /\ p.pc = "doc"
    /\ docs' = DocPut(p.id, NewMemDoc(p.hash))
    /\ procs' = (procs (-) SetToBag({p}))
                (+) SetToBag({[p EXCEPT !.pc = IF ChunkCount(p.hash) = 0
                                                THEN "hash" ELSE "chunk"]})
    /\ UNCHANGED <<instances, chunks, hashes, wallclock, returned>>
    /\ UNCHANGED <<mkVars, orchVars, libVars>>

\* Line 696: chunks.add(chunk_data), one chunk of the loop.
AddChunk(p) ==
    /\ BagIn(p, procs)
    /\ p.op = "ingest" /\ p.pc = "chunk"
    /\ chunks' = chunks (+) SetToBag({NewChunk(p.id, p.i)})
    /\ procs' = (procs (-) SetToBag({p}))
                (+) SetToBag({[p EXCEPT !.i = p.i + 1,
                                        !.pc = IF p.i + 1 < ChunkCount(p.hash)
                                               THEN "chunk" ELSE "hash"]})
    /\ UNCHANGED <<instances, docs, hashes, wallclock, returned>>
    /\ UNCHANGED <<mkVars, orchVars, libVars>>

\* Lines 698-705: the memory_hashes entry, then return len(chunks).
WriteHash(p) ==
    /\ BagIn(p, procs)
    /\ p.op = "ingest" /\ p.pc = "hash"
    /\ hashes' = hashes \cup {p.hash}
    /\ procs' = procs (-) SetToBag({p})
    /\ returned' = Some(Ingested(p.hash, ChunkCount(p.hash)))
    /\ UNCHANGED <<instances, docs, chunks, wallclock>>
    /\ UNCHANGED <<mkVars, orchVars, libVars>>

\* The commit does not get to its end: a Firestore call raises (lines 707-709
\* return 0) or the process dies.
IngestFails(p) ==
    /\ BagIn(p, procs)
    /\ p.op = "ingest"
    /\ procs' = procs (-) SetToBag({p})
    /\ returned' = Some(Ingested(p.hash, 0))
    /\ UNCHANGED <<instances, docs, chunks, hashes, wallclock>>
    /\ UNCHANGED <<mkVars, orchVars, libVars>>

\* DELETE /doc/{id} with permanent=false, lines 1093-1097 and 1124-1130.
SoftDelete(id) ==
    /\ Busy < instances
    /\ id \in DOMAIN docs
    /\ docs' = [docs EXCEPT ![id].deleted = TRUE,
                            ![id].deleted_at = Some(NowIso(wallclock))]
    /\ returned' = Some(Deleted(id, FALSE))
    /\ UNCHANGED <<instances, chunks, hashes, procs, wallclock>>
    /\ UNCHANGED <<mkVars, orchVars, libVars>>

\* DELETE /doc/{id} with permanent=true, lines 1093-1099: the document is
\* read, and found.
HardDeleteStart(id) ==
    /\ Busy < instances
    /\ id \in DOMAIN docs
    /\ procs' = procs (+) SetToBag({Proc("delete", id, "chunks", 0, << >>,
                                         docs[id].content_hash)})
    /\ UNCHANGED <<instances, docs, chunks, hashes, wallclock, returned>>
    /\ UNCHANGED <<mkVars, orchVars, libVars>>

\* Lines 1103-1105: the chunks of the document are queried and deleted.
DeleteChunks(p) ==
    /\ BagIn(p, procs)
    /\ p.op \in {"delete", "sweep"} /\ p.pc = "chunks"
    /\ chunks' = BagWithout(chunks, ChunksOf(p.id))
    /\ procs' = (procs (-) SetToBag({p})) (+) SetToBag({[p EXCEPT !.pc = "doc"]})
    /\ UNCHANGED <<instances, docs, hashes, wallclock, returned>>
    /\ UNCHANGED <<mkVars, orchVars, libVars>>

\* Line 1108: doc_ref.delete().
DeleteDoc(p) ==
    /\ BagIn(p, procs)
    /\ p.op \in {"delete", "sweep"} /\ p.pc = "doc"
    /\ docs' = DocDelete(p.id)
    /\ procs' = (procs (-) SetToBag({p})) (+) SetToBag({[p EXCEPT !.pc = "hash"]})
    /\ UNCHANGED <<instances, chunks, hashes, wallclock, returned>>
    /\ UNCHANGED <<mkVars, orchVars, libVars>>

\* Lines 1111-1116: the memory_hashes entry of the content_hash that was read
\* is deleted and the delete returns; a sweep goes on to its next document.
AfterDelete(p) ==
    IF p.op = "sweep"
    THEN SetToBag({[p EXCEPT !.pc = "next", !.id = 0, !.hash = 0]})
    ELSE EmptyBag
DeleteHash(p) ==
    /\ BagIn(p, procs)
    /\ p.op \in {"delete", "sweep"} /\ p.pc = "hash"
    /\ hashes' = hashes \ {p.hash}
    /\ procs' = (procs (-) SetToBag({p})) (+) AfterDelete(p)
    /\ returned' = IF p.op = "delete" THEN Some(Deleted(p.id, TRUE)) ELSE returned
    /\ UNCHANGED <<instances, docs, chunks, wallclock>>
    /\ UNCHANGED <<mkVars, orchVars, libVars>>

\* The elements of a set of numbers in ascending order.
RECURSIVE InOrder(_)
InOrder(S) ==
    IF S = {} THEN << >>
    ELSE LET m == CHOOSE x \in S : \A y \in S : x <= y
         IN  <<m>> \o InOrder(S \ {m})

\* One tick of cleanup_soft_deleted, lines 1143-1149: the expired documents
\* are queried.
SweepStart ==
    /\ Busy < instances
    /\ procs' = procs (+) SetToBag({Proc("sweep", 0, "next", 0,
                                         InOrder(ExpiredDocs(wallclock)), 0)})
    /\ UNCHANGED <<instances, docs, chunks, hashes, wallclock, returned>>
    /\ UNCHANGED <<mkVars, orchVars, libVars>>

\* Lines 1151-1153: the loop of the tick calls delete_document for its next
\* document; with none left the tick is over.  A document that is gone by wallclock
\* makes delete_document raise 404, which ends the tick (lines 1156-1157).
SweepNext(p) ==
    /\ BagIn(p, procs)
    /\ p.op = "sweep" /\ p.pc = "next"
    /\ procs' = IF p.todo = << >> \/ Head(p.todo) \notin DOMAIN docs
                THEN procs (-) SetToBag({p})
                ELSE (procs (-) SetToBag({p}))
                     (+) SetToBag({Proc("sweep", Head(p.todo), "chunks", 0,
                                        Tail(p.todo),
                                        docs[Head(p.todo)].content_hash)})
    /\ UNCHANGED <<instances, docs, chunks, hashes, wallclock, returned>>
    /\ UNCHANGED <<mkVars, orchVars, libVars>>

\* check_quota() in the delete_document of a sweep raises 429 (the requests
\* of this minute have used up the quota), which ends the tick.
QuotaExceeded(p) ==
    /\ BagIn(p, procs)
    /\ p.op = "sweep" /\ p.pc = "next" /\ p.todo # << >>
    /\ procs' = procs (-) SetToBag({p})
    /\ UNCHANGED <<instances, docs, chunks, hashes, wallclock, returned>>
    /\ UNCHANGED <<mkVars, orchVars, libVars>>

\* The requests of the clients and the steps of the operations in flight.
StoreNext ==
    \/ \E c \in Contents : IngestCheck(c)
    \/ \E p \in BagToSet(procs) : WriteDoc(p)
    \/ \E p \in BagToSet(procs) : AddChunk(p)
    \/ \E p \in BagToSet(procs) : WriteHash(p)
    \/ \E p \in BagToSet(procs) : IngestFails(p)
    \/ \E id \in Contents : SoftDelete(id)
    \/ \E id \in Contents : HardDeleteStart(id)
    \/ \E p \in BagToSet(procs) : DeleteChunks(p)
    \/ \E p \in BagToSet(procs) : DeleteDoc(p)
    \/ \E p \in BagToSet(procs) : DeleteHash(p)

\* The same with the passing of time and the daily sweep.
MemNext ==
    \/ \E c \in Contents : IngestCheck(c)
    \/ \E p \in BagToSet(procs) : WriteDoc(p)
    \/ \E p \in BagToSet(procs) : AddChunk(p)
    \/ \E p \in BagToSet(procs) : WriteHash(p)
    \/ \E p \in BagToSet(procs) : IngestFails(p)
    \/ \E id \in Contents : SoftDelete(id)
    \/ \E id \in Contents : HardDeleteStart(id)
    \/ \E p \in BagToSet(procs) : DeleteChunks(p)
    \/ \E p \in BagToSet(procs) : DeleteDoc(p)
    \/ \E p \in BagToSet(procs) : DeleteHash(p)
    \/ Tick
    \/ SweepStart
    \/ \E p \in BagToSet(procs) : SweepNext(p)
    \/ \E p \in BagToSet(procs) : QuotaExceeded(p)

\* ---- Properties of Part III

\* The chunks a complete ingestion of content c stores: one of each index.
CleanChunks(c) ==
    /\ \A i \in 0..(ChunkCount(c) - 1) : CopiesIn(NewChunk(FileId(c), i), chunks) = 1
    /\ \A ch \in ChunksOf(FileId(c)) : ch.chunk_index < ChunkCount(c)

\* C15: when a content has just been ingested (the ingestion stored its
\* chunks and returned their number) and the same content is ingested again,
\* the second ingestion leaves documents, chunks and hash entries exactly as
\* they are and reports 0 chunks; the same holds for a third, fourth, ...
C15_DedupeIdempotent ==
    [][\A c \in Contents :
          (/\ IngestCheck(c)
           /\ \/ returned = Some(Ingested(c, ChunkCount(c)))
              \/ returned = Some(Ingested(c, 0)) /\ KnowsHash(c))
              => /\ docs' = docs
                 /\ chunks' = chunks
                 /\ hashes' = hashes
                 /\ procs' = procs
                 /\ returned' = Some(Ingested(c, 0))]_vars
\* Content 1 was ingested (two chunks) and ingested again: the second
\* ingestion answered 0 and the store holds one document with its two chunks.
C15_Witness ==
    /\ returned = Some(Ingested(1, 0))
    /\ KnowsHash(1)
    /\ procs = EmptyBag
    /\ DOMAIN docs = {FileId(1)}
    /\ CleanChunks(1)
    /\ BagCardinality(chunks) = ChunkCount(1)

\* The ingestions of content c in flight that have written its document.
Writers(c) ==
    BagCount(procs, { p \in BagToSet(procs) :
                        p.op = "ingest" /\ p.hash = c /\ p.pc # "doc" })

\* C16: of the ingestions of one content that are in flight together at most
\* one writes the document and its chunks; the others are no-ops.
C16_OneWinner ==
    \A c \in Contents : Writers(c) <= 1

\* C17: whenever no operation is in flight and a content has its hash entry
\* (its ingestion got to the end, possibly after earlier attempts that died
\* in their commit), the store holds one document for it and exactly one
\* chunk of each index 0..chunk_count-1: no chunk is there twice.
C17_CrashRetryIdempotent ==
    \A c \in Contents :
        (procs = EmptyBag /\ KnowsHash(c)) =>
            /\ FileId(c) \in DOMAIN docs
            /\ CleanChunks(c)

\* The chunks of document id that some search returns.
VisibleOf(id) ==
    { ch \in UNION { Search(q) : q \in Queries } : ch.document_id = id }

\* C18: a search never returns a chunk of a soft-deleted document, and a
\* soft-deleted document stays hidden as long as its record is there: only
\* after a hard delete can its content be ingested and found again.
C18_SoftDeleteHides ==
    /\ [](\A id \in DOMAIN docs : docs[id].deleted => VisibleOf(id) = {})
    /\ [][\A id \in DOMAIN docs :
            (docs[id].deleted /\ id \in DOMAIN docs')
                => VisibleOf(id)' = {}]_vars

\* The instant a now_iso() text stands for.
ParseNowIso(text) ==
    [day |-> text[1], us |-> IF Len(text) > 2 THEN text[Len(text) - 1] - Zero ELSE 0]
InstantLeq(a, b) == a.day < b.day \/ (a.day = b.day /\ a.us <= b.us)
\* The documents whose soft delete is retentionDays or more before instant t.
DueDocs(t) ==
    { id \in DOMAIN docs :
        /\ docs[id].deleted
        /\ InstantLeq(ParseNowIso(docs[id].deleted_at[1]), Cutoff(t)) }

\* C19: a sweep picks for hard deletion exactly the documents with
\* deleted = true and deletedAt <= now - retentionDays; it removes no live
\* document and none inside the retention window; and a document it has
\* dealt with is gone together with its chunks and its hash entry.
C19_RetentionSweep ==
    /\ [][SweepStart =>
            \E p \in BagToSet(procs') :
                p.op = "sweep" /\ Range(p.todo) = DueDocs(wallclock)]_vars
    /\ [][\A p \in BagToSet(procs) :
            (p.op = "sweep" /\ DeleteDoc(p) /\ p.id \in DOMAIN docs)
                => p.id \in DueDocs(wallclock)]_vars
    /\ [][\A p \in BagToSet(procs) :
            (p.op = "sweep" /\ DeleteHash(p))
                => /\ p.id \notin DOMAIN docs'
                   /\ \A ch \in BagToSet(chunks') : ch.document_id # p.id
                   /\ p.hash \notin hashes']_vars

\* C20: when delete(id, permanent=true) returns, the document, every chunk
\* with document_id = id and the hash entry of its content are absent, and
\* an ingestion of the same content that follows is not skipped as a
\* duplicate: it goes on to store the content again.
C20_HardDeleteCascades ==
    /\ [][\A p \in BagToSet(procs) :
            (p.op = "delete" /\ DeleteHash(p))
                => /\ p.id \notin DOMAIN docs'
                   /\ \A ch \in BagToSet(chunks') : ch.document_id # p.id
                   /\ p.hash \notin hashes'
                   /\ returned' = Some(Deleted(p.id, TRUE))]_vars
    /\ [](\A c \in Contents :
            (returned = Some(Deleted(FileId(c), TRUE)) /\ procs = EmptyBag)
                => /\ FileId(c) \notin DOMAIN docs
                   /\ ChunksOf(FileId(c)) = {}
                   /\ ~KnowsHash(c))
    /\ [][\A c \in Contents :
            (returned = Some(Deleted(FileId(c), TRUE)) /\ IngestCheck(c))
                => BagIn(Proc("ingest", FileId(c), "doc", 0, << >>, c), procs')]_vars
\* Content 1 was hard-deleted and is being ingested again: the new ingestion
\* has written the document and its two chunks and is about to write the hash.
C20_Witness ==
    /\ returned = Some(Deleted(FileId(1), TRUE))
    /\ BagIn(Proc("ingest", FileId(1), "hash", ChunkCount(1), << >>, 1), procs)
    /\ FileId(1) \in DOMAIN docs
    /\ CleanChunks(1)
    /\ ~KnowsHash(1)

\* Document id lacks one of the chunks its chunk_count announces.
C31_FewerChunks(id) ==
    \E i \in 0..(docs[id].chunk_count - 1) : ~BagIn(NewChunk(id, i), chunks)
\* An operation of this kind on document id is in flight.
C31_InFlight(ops, id) == \E p \in BagToSet(procs) : p.op \in ops /\ p.id = id
\* The step that writes a memory_hashes entry leaves the document of that
\* content and all its chunks in the store.
C31_HashLast ==
    [][\A h \in hashes' \ hashes :
          /\ FileId(h) \in DOMAIN docs'
          /\ docs'[FileId(h)].content_hash = h
          /\ \A i \in 0..(ChunkCount(h) - 1) : BagIn(NewChunk(FileId(h), i), chunks')]_vars

\* C31: the memory_hashes entry of an ingestion is written last, after the
\* document and all its chunks, and a document (that is not being deleted)
\* has fewer chunks than its chunk_count only while its ingestion is running.
C31_CommitOrder ==
    /\ C31_HashLast
    /\ [](\A id \in DOMAIN docs :
            (C31_FewerChunks(id) /\ ~C31_InFlight({"delete", "sweep"}, id))
                => C31_InFlight({"ingest"}, id))

(***************************************************************************)
(* Part IV.  Token-aware chunking: semantic_chunk                          *)
(*                                                                         *)
(* One call with a tokenizer.  The text is its token stream 0..N-1; a      *)
(* chunk is its token range [start_token, end_token).                      *)
(***************************************************************************)

\* --- bounds of the model
MaxTextTokens == 6
MaxChunkTokens == 3

Min(a, b) == IF a < b THEN a ELSE b

\* Line 176.
EndToken(start, max, n) == Min(start + max, n)
NextStartWithoutOverlap(end_token, overlap, n) == end_token
\* Line 190.
NextStart(end_token, overlap, n) ==
    IF end_token < n THEN end_token - overlap ELSE end_token

ChunkInit ==
    /\ sc_tokens \in 0..MaxTextTokens
    /\ sc_max_tokens \in 1..MaxChunkTokens
    /\ sc_overlap_tokens \in 0..(sc_max_tokens - 1)
    /\ sc_start_token = 0
    /\ sc_chunks = << >>
    /\ sc_pc = "loop"

ChunkIdle ==
    /\ sc_tokens = 0
    /\ sc_max_tokens = 1
    /\ sc_overlap_tokens = 0
    /\ sc_start_token = 0
    /\ sc_chunks = << >>
    /\ sc_pc = "idle"

\* One iteration of the while loop, lines 175-190.
ChunkStep ==
    /\ sc_pc = "loop"
    /\ sc_start_token < sc_tokens
    /\ LET end_token == EndToken(sc_start_token, sc_max_tokens, sc_tokens) IN
         /\ sc_chunks' = Append(sc_chunks,
                                [token_count |-> end_token - sc_start_token,
                                 start_token |-> sc_start_token,
                                 end_token |-> end_token])
         /\ sc_start_token' = NextStart(end_token, sc_overlap_tokens, sc_tokens)
    /\ UNCHANGED <<sc_tokens, sc_max_tokens, sc_overlap_tokens, sc_pc>>
    /\ UNCHANGED <<mkVars, orchVars, memVars, searchVars, quotaVars, amVars,
                   sjVars, exVars, igVars, ldVars, wcVars, fwVars, vfVars>>

\* The loop ends, line 193.
ChunkReturn ==
    /\ sc_pc = "loop"
    /\ ~(sc_start_token < sc_tokens)
    /\ sc_pc' = "returned"
    /\ UNCHANGED <<sc_tokens, sc_max_tokens, sc_overlap_tokens, sc_start_token,
                   sc_chunks>>
    /\ UNCHANGED <<mkVars, orchVars, memVars, searchVars, quotaVars, amVars,
                   sjVars, exVars, igVars, ldVars, wcVars, fwVars, vfVars>>

ChunkNext == ChunkStep \/ ChunkReturn

\* ---- Properties of Part IV (checked under ChunkSpec)

\* The tokens of a chunk.
TokensOf(ch) == ch.start_token..(ch.end_token - 1)

\* C21: the chunks semantic_chunk returns cover the token stream exactly and
\* without a gap (the first starts at 0, each next one starts inside or at
\* the end of its predecessor, the last ends at N), and every adjacent pair
\* but possibly the last overlaps by exactly overlap_tokens tokens.
C21_ChunkCover ==
    sc_pc = "returned" =>
        /\ UNION { TokensOf(sc_chunks[i]) : i \in 1..Len(sc_chunks) }
             = 0..(sc_tokens - 1)
        /\ \A i \in 1..(Len(sc_chunks) - 1) :
              /\ sc_chunks[i + 1].start_token <= sc_chunks[i].end_token
              /\ sc_chunks[i].start_token < sc_chunks[i + 1].start_token
        /\ \A i \in 1..(Len(sc_chunks) - 2) :
              Cardinality(TokensOf(sc_chunks[i]) \cap TokensOf(sc_chunks[i + 1]))
                 = sc_overlap_tokens

\* A text of three chunks with an overlap, the last one short.
C21_Witness ==
    /\ sc_pc = "returned"
    /\ Len(sc_chunks) = 3
    /\ sc_overlap_tokens > 0
    /\ sc_chunks[3].token_count < sc_max_tokens

(***************************************************************************)
(* Part V.  Hybrid retriever: POST /search                                 *)
(*                                                                         *)
(* The store is read, not written.  A chunk is named by its id, which      *)
(* stands for its text too; for the query of the request it has a cosine   *)
(* similarity vscore (0: the chunk has no embedding) and a term count      *)
(* bscore (0: no query term occurs in its text).  The collection streams   *)
(* in the order of the ids.  A fused score is the fraction num/den.        *)
(***************************************************************************)

\* --- bounds of the model
MaxChunkIds == 3
MaxTopK == 2

\* --- program constants
RrfK == 60
ENABLE_HYBRID_SEARCH == TRUE

ChunkIds == 1..MaxChunkIds
FileIds == {1, 2}

\* The documents of the modelled store: document 1 is a PDF in folder 1,
\* document 2 a text file in folder 2; the odd chunks are of document 1.
CatalogDoc(id, deleted) ==
    [parent_folder |-> id, mime_type |-> IF id = 1 THEN "pdf" ELSE "txt",
     modified_at |-> id, content_hash |-> id, deleted |-> deleted]
DocumentOf(c) == IF c % 2 = 1 THEN 1 ELSE 2

\* SearchRequest, lines 78-86: filters that are absent are None (folder_ids:
\* the empty list).
Request(folder_ids, mime_types, date_from, date_to, version_hash, top_k, use_hybrid) ==
    [folder_ids |-> folder_ids, mime_types |-> mime_types, date_from |-> date_from,
     date_to |-> date_to, version_hash |-> version_hash, top_k |-> top_k,
     use_hybrid |-> use_hybrid]
FilterChoices ==
    { Request({}, None, None, None, None, 1, TRUE),
      Request({1}, None, None, None, None, 1, TRUE),
      Request({}, Some({"pdf"}), None, None, None, 1, TRUE),
      Request({}, None, Some(2), None, None, 1, TRUE),
      Request({}, None, None, Some(1), None, 1, TRUE),
      Request({}, None, None, None, Some(1), 1, TRUE) }

\* The filters dict of search, lines 1030-1040: the keys that were supplied.
Filters(req) ==
    {key \in {"folder_ids"} : req.folder_ids # {}}
    \cup {key \in {"mime_types"} : req.mime_types # None}
    \cup {key \in {"date_from"} : req.date_from # None}
    \cup {key \in {"date_to"} : req.date_to # None}
    \cup {key \in {"version_hash"} : req.version_hash # None}

\* Fractions.
Frac(n, d) == [num |-> n, den |-> d]
FracAdd(a, b) == Frac(a.num * b.den + b.num * a.den, a.den * b.den)
FracGt(a, b) == a.num * b.den > b.num * a.den

\* list.sort(key=..., reverse=True) and sorted(..., reverse=True), keys[i]
\* being the key of s[i]: stable, elements with equal keys keep their order.
StableSortDesc(s, keys) ==
    LET n == Len(s)
        Before(i, j) == FracGt(keys[i], keys[j]) \/ (~FracGt(keys[j], keys[i]) /\ i < j)
        pos == [i \in 1..n |-> Cardinality({ j \in 1..n : Before(j, i) }) + 1]
    IN  [p \in 1..n |-> s[CHOOSE i \in 1..n : pos[i] = p]]
\* s[:n]
Take(s, n) == SubSeq(s, 1, Min(n, Len(s)))
\* key=lambda x: x["score"]
ScoreKeys(results) == [i \in 1..Len(results) |-> Frac(results[i].score, 1)]

\* bm25_search, lines 917-948.
Bm25Search(top_k) ==
    LET hits == InOrder({ c \in DOMAIN corpus : corpus[c].bscore > 0 })
        results == [i \in 1..Len(hits) |->
                       [id |-> hits[i], score |-> corpus[hits[i]].bscore,
                        document_id |-> corpus[hits[i]].document_id]]
    IN  Take(StableSortDesc(results, ScoreKeys(results)), top_k)

\* vector_search, lines 950-988: filters is received and not used (lines
\* 969-971).
VectorSearch(top_k, filters) ==
    LET hits == InOrder({ c \in DOMAIN corpus : corpus[c].vscore > 0 })
        results == [i \in 1..Len(hits) |->
                       [id |-> hits[i], score |-> corpus[hits[i]].vscore,
                        document_id |-> corpus[hits[i]].document_id]]
    IN  Take(StableSortDesc(results, ScoreKeys(results)), top_k)

\* The index of id in a result list, 0 when it is not in it.
RankIn(results, id) ==
    IF \E i \in 1..Len(results) : results[i].id = id
    THEN CHOOSE i \in 1..Len(results) : results[i].id = id
    ELSE 0
RrfTermGrowing(rank) == Frac(rank, 1)
\* 1 / (k + rank), lines 1006 and 1010.
RrfTerm(rank) == Frac(1, RrfK + rank)

\* hybrid_search, lines 990-1017.  The two loops add a term per arm; scores
\* keeps the order in which its keys were inserted.
HybridSearch(top_k, filters) ==
    LET vector_results == VectorSearch(top_k * 2, filters)
        bm25_results == Bm25Search(top_k * 2)
        both == vector_results \o bm25_results
        added == InOrder({ i \in 1..Len(bm25_results) :
                             RankIn(vector_results, bm25_results[i].id) = 0 })
        keys == [i \in 1..Len(vector_results) |-> vector_results[i].id]
                \o [i \in 1..Len(added) |-> bm25_results[added[i]].id]
        Score(id) ==
            FracAdd(IF RankIn(vector_results, id) = 0 THEN Frac(0, 1)
                    ELSE RrfTerm(RankIn(vector_results, id)),
                    IF RankIn(bm25_results, id) = 0 THEN Frac(0, 1)
                    ELSE RrfTerm(RankIn(bm25_results, id)))
        items == [i \in 1..Len(keys) |-> [id |-> keys[i], score |-> Score(keys[i])]]
        ranked == Take(StableSortDesc(items, [i \in 1..Len(items) |-> items[i].score]),
                       top_k)
        \* all_results: for an id of both arms the entry of the lexical arm
        AllResults(id) ==
            both[CHOOSE i \in 1..Len(both) :
                    both[i].id = id /\ \A j \in (i + 1)..Len(both) : both[j].id # id]
    IN  [i \in 1..Len(ranked) |-> AllResults(ranked[i].id)]

\* Lines 1043-1046.
Results(req) ==
    IF req.use_hybrid /\ ENABLE_HYBRID_SEARCH
    THEN HybridSearch(req.top_k, Filters(req))
    ELSE VectorSearch(req.top_k, Filters(req))

\* Lines 1049-1071: a result is kept when its document exists and is not
\* soft-deleted, and gets the document's provenance.
Enriched(results) ==
    LET kept == InOrder({ i \in 1..Len(results) :
                            /\ results[i].document_id \in DOMAIN catalog
                            /\ ~catalog[results[i].document_id].deleted })
    IN  [i \in 1..Len(kept) |->
            [text |-> results[kept[i]].id, score |-> results[kept[i]].score,
             file_id |-> results[kept[i]].document_id,
             version_hash |-> catalog[results[kept[i]].document_id].content_hash,
             modified_at |-> catalog[results[kept[i]].document_id].modified_at]]

\* The store in which chunk c has the scores vscores[c] and bscores[c].
CorpusWith(vscores, bscores) ==
    [c \in ChunkIds |-> [document_id |-> DocumentOf(c), vscore |-> vscores[c],
                         bscore |-> bscores[c]]]
SearchInit ==
    /\ corpus \in { CorpusWith(v, b) : v, b \in [ChunkIds -> {0, 1}] }
    /\ catalog \in { [id \in FileIds |-> CatalogDoc(id, id = 2 /\ deleted)] :
                        deleted \in BOOLEAN }
    /\ sreq \in { [r EXCEPT !.top_k = top_k, !.use_hybrid = use_hybrid] :
                    r \in FilterChoices, top_k \in 1..MaxTopK, use_hybrid \in BOOLEAN }
    /\ sr_ranked = None
    /\ sr_response = None

\* The orders in which an arm can rank the chunks it finds, and scores that
\* give that order (scores that tie give the order of the ids, which is one
\* of these orders too).
Rankings ==
    UNION { { r \in [1..m -> ChunkIds] : \A i, j \in 1..m : i # j => r[i] # r[j] } :
              m \in 0..MaxChunkIds }
ScoresOf(r) ==
    [c \in ChunkIds |->
        IF \E i \in 1..Len(r) : r[i] = c
        THEN Len(r) + 1 - (CHOOSE i \in 1..Len(r) : r[i] = c)
        ELSE 0]

\* Every ranking of the two arms; no filter, no deleted document.
RrfInit ==
    /\ corpus \in { CorpusWith(ScoresOf(v), ScoresOf(b)) : v, b \in Rankings }
    /\ catalog = [id \in FileIds |-> CatalogDoc(id, FALSE)]
    /\ sreq \in { Request({}, None, None, None, None, top_k, TRUE) :
                    top_k \in 1..MaxTopK }
    /\ sr_ranked = None
    /\ sr_response = None

SearchIdle ==
    /\ corpus = << >>
    /\ catalog = << >>
    /\ sreq = Request({}, None, None, None, None, 1, TRUE)
    /\ sr_ranked = None
    /\ sr_response = None

\* POST /search answers, lines 1027-1078.
SearchCall ==
    /\ sr_response = None
    /\ LET results == Results(sreq) IN
         /\ sr_ranked' = Some(results)
         /\ sr_response' = Some([status |-> 200, results |-> Enriched(results)])
    /\ UNCHANGED <<corpus, catalog, sreq>>
    /\ UNCHANGED <<mkVars, orchVars, memVars, chunkVars, quotaVars, amVars,
                   sjVars, exVars, igVars, ldVars, wcVars, fwVars, vfVars>>

\* check_quota() raises 429, line 1027.
SearchRejected ==
    /\ sr_response = None
    /\ sr_response' = Some([status |-> 429, results |-> << >>])
    /\ UNCHANGED <<corpus, catalog, sreq, sr_ranked>>
    /\ UNCHANGED <<mkVars, orchVars, memVars, chunkVars, quotaVars, amVars,
                   sjVars, exVars, igVars, ldVars, wcVars, fwVars, vfVars>>

SearchNext == SearchCall \/ SearchRejected

\* ---- Properties of Part V

\* Document doc satisfies every filter the request supplies.
C22_Satisfies(doc, req) ==
    /\ req.folder_ids # {} => doc.parent_folder \in req.folder_ids
    /\ req.mime_types # None => doc.mime_type \in req.mime_types[1]
    /\ req.date_from # None => doc.modified_at >= req.date_from[1]
    /\ req.date_to # None => doc.modified_at <= req.date_to[1]
    /\ req.version_hash # None => doc.content_hash = req.version_hash[1]

\* C22: every result of a search belongs to a document that satisfies all
\* the filters the request carries (folder_ids, mime_types, date_from,
\* date_to, version_hash); an absent filter constrains nothing.
C22_SearchFilters ==
    (sr_response # None /\ sr_response[1].status = 200) =>
        \A i \in 1..Len(sr_response[1].results) :
            C22_Satisfies(catalog[sr_response[1].results[i].file_id], sreq)

\* The two arms of the request and the rank of a chunk in an arm (0: not
\* found).
C24_Arms == << VectorSearch(sreq.top_k * 2, {}), Bm25Search(sreq.top_k * 2) >>
C24_Rank(a, id) == RankIn(C24_Arms[a], id)
\* The fused score of a chunk with these ranks: over the arms in which it
\* appears, the sum of 1/(60 + rank), ranks from 1.
C24_Score(rank1, rank2) ==
    FracAdd(IF rank1 = 0 THEN Frac(0, 1) ELSE Frac(1, 60 + rank1),
            IF rank2 = 0 THEN Frac(0, 1) ELSE Frac(1, 60 + rank2))
C24_Returned == { sr_ranked[1][i].id : i \in 1..Len(sr_ranked[1]) }

\* C24: hybrid_search returns the top_k chunks by fused score, in the order
\* of that score, and a chunk found by both arms comes before every chunk
\* that only one arm found at the same or a worse rank.
C24_ReciprocalRankFusion ==
    (sr_ranked # None /\ sreq.use_hybrid) =>
        LET out == sr_ranked[1]
            arms == C24_Arms
            found == UNION { { arms[a][i].id : i \in 1..Len(arms[a]) } : a \in 1..2 }
            returned_ids == C24_Returned
            rank == [a \in 1..2 |-> [id \in ChunkIds |-> RankIn(arms[a], id)]]
            score == [id \in ChunkIds |-> C24_Score(rank[1][id], rank[2][id])]
            place == [id \in ChunkIds |-> RankIn(out, id)]
        IN
        /\ Len(out) = Min(sreq.top_k, Cardinality(found))
        /\ returned_ids \subseteq found
        /\ \A i, j \in 1..Len(out) :
              i < j => /\ out[i].id # out[j].id
                       /\ ~FracGt(score[out[j].id], score[out[i].id])
        /\ \A d \in returned_ids, e \in found \ returned_ids :
              ~FracGt(score[e], score[d])
        /\ \A d, e \in found :
              (/\ rank[1][d] > 0 /\ rank[2][d] > 0
               /\ (rank[1][e] = 0) # (rank[2][e] = 0)
               /\ rank[1][e] + rank[2][e] >= Min(rank[1][d], rank[2][d]))
              => /\ FracGt(score[d], score[e])
                 /\ e \in returned_ids
                      => (d \in returned_ids /\ place[d] < place[e])

\* Chunk 3 is second in both arms and is returned before chunk 1, the first
\* of the vector arm only; chunk 2, the first of the lexical arm, is cut.
C24_Witness ==
    /\ sr_ranked # None
    /\ sreq.top_k = 2
    /\ Len(sr_ranked[1]) = 2
    /\ sr_ranked[1][1].id = 3
    /\ sr_ranked[1][2].id = 1
    /\ C24_Rank(1, 3) = 2 /\ C24_Rank(2, 3) = 2
    /\ C24_Rank(1, 1) = 1 /\ C24_Rank(2, 1) = 0
    /\ C24_Rank(2, 2) = 1 /\ C24_Rank(1, 2) = 0

\* The chunks of documents that are not soft-deleted which the search method
\* of the request finds for the query.
C40_LiveMatches ==
    { c \in DOMAIN corpus :
        /\ ~catalog[corpus[c].document_id].deleted
        /\ \/ corpus[c].vscore > 0
           \/ (sreq.use_hybrid /\ ENABLE_HYBRID_SEARCH /\ corpus[c].bscore > 0) }

\* C40: search returns the top_k chunks among those of live documents: when
\* at least top_k chunks of documents that are not soft-deleted match the
\* query, the response holds top_k results.
C40_TopKOfLive ==
    (/\ sr_response # None /\ sr_response[1].status = 200
     /\ Cardinality(C40_LiveMatches) >= sreq.top_k)
        => Len(sr_response[1].results) = sreq.top_k

(***************************************************************************)
(* Part VI.  Rate limiting: check_quota                                    *)
(*                                                                         *)
(* quota_tracker is a global of the process; check_quota is synchronous    *)
(* code that every endpoint calls from the event loop, so a call is one    *)
(* step.  Time is counted in ticks, WindowTicks of them to the minute.     *)
(***************************************************************************)

\* --- bounds of the model
MaxTicks == 8
WindowTicks == 2
\* The configured limit (the environment's value; 1000 if unset).
QUOTA_LIMIT_PER_MINUTE == 2

\* Line 211.
NewWindow(now) == [count |-> 0, reset_at |-> now + WindowTicks]
\* Lines 210-211: the tracker the rest of the call works on.
Tracker(now) ==
    IF now >= quota_tracker.reset_at THEN NewWindow(now) ELSE quota_tracker
QuotaExhaustedAbove(count) == count > QUOTA_LIMIT_PER_MINUTE
\* Line 213.
QuotaExhausted(count) == count >= QUOTA_LIMIT_PER_MINUTE

\* Line 67: the module is loaded at tick 0.
QuotaInit ==
    /\ quota_tracker = [count |-> 0, reset_at |-> 0]
    /\ q_now = 0
    /\ q_admitted = 0
    /\ q_outcome = "none"

QuotaIdle ==
    /\ quota_tracker = [count |-> 0, reset_at |-> 0]
    /\ q_now = 0
    /\ q_admitted = 0
    /\ q_outcome = "idle"

\* Time passes.
QuotaTick ==
    /\ q_outcome # "idle"
    /\ q_now < MaxTicks
    /\ q_now' = q_now + 1
    /\ UNCHANGED <<quota_tracker, q_admitted, q_outcome>>
    /\ UNCHANGED <<mkVars, orchVars, memVars, chunkVars, searchVars, amVars,
                   sjVars, exVars, igVars, ldVars, wcVars, fwVars, vfVars>>

\* One call of check_quota, lines 205-216.
CheckQuota ==
    /\ q_outcome # "idle"
    /\ LET tracker == Tracker(q_now)
           since == IF tracker = quota_tracker THEN q_admitted ELSE 0
       IN  IF QuotaExhausted(tracker.count)
           THEN /\ quota_tracker' = tracker
                /\ q_admitted' = since
                /\ q_outcome' = "rejected"
           ELSE /\ quota_tracker' = [tracker EXCEPT !.count = @ + 1]
                /\ q_admitted' = since + 1
                /\ q_outcome' = "admitted"
    /\ UNCHANGED q_now
    /\ UNCHANGED <<mkVars, orchVars, memVars, chunkVars, searchVars, amVars,
                   sjVars, exVars, igVars, ldVars, wcVars, fwVars, vfVars>>

QuotaNext == QuotaTick \/ CheckQuota

\* ---- Properties of Part VI (checked under QuotaSpec)

\* C23: the counter never exceeds QUOTA_LIMIT_PER_MINUTE and no more calls
\* than that are admitted between two resets; a call made when the limit is
\* used up and the window is not over is rejected and leaves the tracker as
\* it is; the tracker is reset only by a call made at or after reset_at, and
\* the new window ends a minute after that call.
C23_RateLimit ==
    /\ [](quota_tracker.count <= QUOTA_LIMIT_PER_MINUTE)
    /\ [](q_admitted <= QUOTA_LIMIT_PER_MINUTE)
    /\ [][(CheckQuota /\ quota_tracker.count >= QUOTA_LIMIT_PER_MINUTE
                     /\ q_now < quota_tracker.reset_at)
            => (q_outcome' = "rejected" /\ quota_tracker' = quota_tracker)]_vars
    /\ [][(CheckQuota /\ q_outcome' = "rejected")
            => quota_tracker'.count = QUOTA_LIMIT_PER_MINUTE]_vars
    /\ [][(quota_tracker'.reset_at # quota_tracker.reset_at
             \/ quota_tracker'.count < quota_tracker.count)
            => /\ q_now >= quota_tracker.reset_at
               /\ quota_tracker'.reset_at = q_now + WindowTicks
               /\ quota_tracker'.count <= 1]_vars

\* In the second window the limit is used up and a further call was rejected.
C23_Witness ==
    /\ q_outcome = "rejected"
    /\ quota_tracker.count = QUOTA_LIMIT_PER_MINUTE
    /\ quota_tracker.reset_at > WindowTicks
    /\ q_now < quota_tracker.reset_at

(***************************************************************************)
(* Part VII.  MAKER.first_to_ahead_by_k of app.core.maker                  *)
(*                                                                         *)
(* The agents run as tasks of the caller's event loop; the caller polls    *)
(* completion_order every 0.1 s under a timeout.  Agents are numbered from *)
(* 1 (agent_0 of the code is agent 1).  A confidence of 0 is one below     *)
(* config.red_flag_threshold, 1 and 2 are confidences at or above it.      *)
(***************************************************************************)

\* --- bounds of the model
MaxAgents == 3

\* What an agent does: it raises, it never finishes within the timeout, or
\* it returns an output with this confidence that the red-flag analysis
\* flags or not (with enable_dynamic_red_flagging off, or an output that is
\* not a dict, nothing is flagged).
Behaviours ==
    { [does |-> "raises", red_flags |-> TRUE, confidence |-> 0],
      [does |-> "hangs", red_flags |-> FALSE, confidence |-> 0],
      [does |-> "returns", red_flags |-> FALSE, confidence |-> 0],
      [does |-> "returns", red_flags |-> FALSE, confidence |-> 1],
      [does |-> "returns", red_flags |-> FALSE, confidence |-> 2],
      [does |-> "returns", red_flags |-> TRUE, confidence |-> 1],
      [does |-> "returns", red_flags |-> TRUE, confidence |-> 0] }

\* Lines 126-128.
StatusOf(b) ==
    IF b.red_flags /\ b.confidence < 1 THEN "red_flagged" ELSE "completed"
\* The AgentResult of lines 136-144, and the one of lines 164-172.
AgentResult(idx, b) ==
    IF b.does = "raises"
    THEN [agent_id |-> idx, status |-> "failed", confidence |-> 0]
    ELSE [agent_id |-> idx, status |-> StatusOf(b), confidence |-> b.confidence]

CancelNothing(ts) == ts
\* Lines 207-209 and 216-218: the tasks that are not done are cancelled.
CancelRemaining(ts) ==
    [i \in DOMAIN ts |-> IF ts[i] = "done" THEN "done" ELSE "cancelled"]

\* The results that are there, in the order of the agents.
Available(res) == InOrder({ i \in DOMAIN res : res[i] # None })
FirstAvailable(res) == res[Available(res)[1]][1]
\* Lines 222-235: the best COMPLETED result (max keeps the first of equal
\* confidences), else the first result there is, else RuntimeError.
Valid(res) == InOrder({ i \in DOMAIN res : res[i] # None /\ res[i][1].status = "completed" })
Best(res) ==
    res[CHOOSE i \in Range(Valid(res)) :
          \A j \in Range(Valid(res)) :
              \/ res[j][1].confidence < res[i][1].confidence
              \/ (res[j][1].confidence = res[i][1].confidence /\ i <= j)][1]
Fallback(res) ==
    IF Valid(res) # << >> THEN Some(Best(res))
    ELSE IF Available(res) # << >> THEN Some(FirstAvailable(res))
    ELSE None

AppMakerInit ==
    /\ am_agents \in UNION { [1..n -> Behaviours] : n \in 2..MaxAgents }
    /\ am_k \in 1..(Len(am_agents) - 1)
    /\ am_max_concurrent \in {1, Len(am_agents)}
    /\ am_tasks = [i \in 1..Len(am_agents) |-> "waiting"]
    /\ am_results = [i \in 1..Len(am_agents) |-> None]
    /\ completion_order = << >>
    /\ am_pc = "sleep"
    /\ am_returned = None
    /\ am_timed_out = FALSE

AppMakerIdle ==
    /\ am_agents = << >>
    /\ am_k = 1
    /\ am_max_concurrent = 1
    /\ am_tasks = << >>
    /\ am_results = << >>
    /\ completion_order = << >>
    /\ am_pc = "idle"
    /\ am_returned = None
    /\ am_timed_out = FALSE

\* The tasks that are inside "async with semaphore" (lines 178-179).
Running(ts) == { j \in DOMAIN ts : ts[j] = "running" }
SemaphoreNeverLocked(ts, max_concurrent) == FALSE
\* asyncio.Semaphore(max_concurrent) has no slot left (line 175).
SemaphoreLocked(ts, max_concurrent) == Cardinality(Running(ts)) >= max_concurrent

\* Lines 177-179: a task enters the semaphore and calls its agent.
AgentStarts(i) ==
    /\ i \in DOMAIN am_tasks
    /\ am_tasks[i] = "waiting"
    /\ ~SemaphoreLocked(am_tasks, am_max_concurrent)
    /\ am_tasks' = [am_tasks EXCEPT ![i] = "running"]
    /\ UNCHANGED <<am_agents, am_k, am_max_concurrent, am_results,
                   completion_order, am_pc, am_returned, am_timed_out>>
    /\ UNCHANGED <<mkVars, orchVars, memVars, chunkVars, searchVars, quotaVars,
                   sjVars, exVars, igVars, ldVars, wcVars, fwVars, vfVars>>

\* Lines 115-172: the agent returns or raises; run_agent stores the result
\* and, when the agent returned, appends it to completion_order.
AgentEnds(i) ==
    /\ i \in DOMAIN am_tasks
    /\ am_tasks[i] = "running"
    /\ am_agents[i].does # "hangs"
    /\ am_results' = [am_results EXCEPT ![i] = Some(AgentResult(i, am_agents[i]))]
    /\ completion_order' = IF am_agents[i].does = "returns"
                           THEN Append(completion_order, i)
                           ELSE completion_order
    /\ am_tasks' = [am_tasks EXCEPT ![i] = "done"]
    /\ UNCHANGED <<am_agents, am_k, am_max_concurrent, am_pc, am_returned,
                   am_timed_out>>
    /\ UNCHANGED <<mkVars, orchVars, memVars, chunkVars, searchVars, quotaVars,
                   sjVars, exVars, igVars, ldVars, wcVars, fwVars, vfVars>>

\* The caller returns r (None: it raises RuntimeError, line 235).
Returns(r) ==
    /\ am_pc' = IF r = None THEN "raised" ELSE "returned"
    /\ am_returned' = r

\* Lines 190-211 and the loop test of line 189: the sleep is over; with k + 1
\* completions the first one wins unless it is red-flagged; else the loop
\* goes on while an agent has not completed, and ends in lines 222-235.
Wakes ==
    /\ am_pc = "sleep"
    /\ IF /\ Len(completion_order) >= am_k + 1
          /\ am_results[completion_order[1]][1].status # "red_flagged"
       THEN /\ Returns(am_results[completion_order[1]])
            /\ am_tasks' = CancelRemaining(am_tasks)
       ELSE IF Len(completion_order) < Len(am_agents)
       THEN UNCHANGED <<am_pc, am_returned, am_tasks>>
       ELSE /\ Returns(Fallback(am_results))
            /\ UNCHANGED am_tasks
    /\ UNCHANGED <<am_agents, am_k, am_max_concurrent, am_results, completion_order,
                   am_timed_out>>
    /\ UNCHANGED <<mkVars, orchVars, memVars, chunkVars, searchVars, quotaVars,
                   sjVars, exVars, igVars, ldVars, wcVars, fwVars, vfVars>>

\* Lines 213-235: asyncio.timeout expires during the sleep.
TimesOut ==
    /\ am_pc = "sleep"
    /\ am_tasks' = CancelRemaining(am_tasks)
    /\ Returns(Fallback(am_results))
    /\ am_timed_out' = TRUE
    /\ UNCHANGED <<am_agents, am_k, am_max_concurrent, am_results, completion_order>>
    /\ UNCHANGED <<mkVars, orchVars, memVars, chunkVars, searchVars, quotaVars,
                   sjVars, exVars, igVars, ldVars, wcVars, fwVars, vfVars>>

AppMakerNext ==
    \/ \E i \in 1..MaxAgents : AgentStarts(i)
    \/ \E i \in 1..MaxAgents : AgentEnds(i)
    \/ Wakes
    \/ TimesOut

\* ---- Properties of Part VII (checked under AppMakerSpec)

\* C25: when an agent has finished without raising, the result that
\* first_to_ahead_by_k returns is COMPLETED or RED_FLAGGED, never FAILED.
C25_NeverFailedWhenOneFinished ==
    (/\ am_pc = "returned"
     /\ \E i \in DOMAIN am_results :
           am_results[i] # None /\ am_results[i][1].status # "failed")
    => am_returned[1].status \in {"completed", "red_flagged"}

\* An agent task had not finished when the call returned.
C36_Early == \E i \in DOMAIN am_tasks : am_tasks[i] # "done"
\* The result is that of the agent that completed first, which is not
\* red-flagged, k other agents have completed, and no task is left running.
C36_FirstWins ==
    /\ Len(completion_order) >= am_k + 1
    /\ am_returned = am_results[completion_order[1]]
    /\ am_returned[1].status # "red_flagged"
    /\ \A i \in DOMAIN am_tasks : am_tasks[i] \in {"done", "cancelled"}

\* C36 as stated: every result returned before all agents have finished is
\* the result of the agent that completed first, not red-flagged, with k
\* other agents completed, and the tasks still running are cancelled.
C36_EarlyWinner ==
    (am_pc = "returned" /\ C36_Early) => C36_FirstWins
\* C36 amended: the same of every result returned before all agents have
\* finished and before the timeout.
C36_EarlyWinnerBeforeTimeout ==
    (am_pc = "returned" /\ C36_Early /\ ~am_timed_out) => C36_FirstWins
\* An early winner: the first of three agents wins with k = 1 while the third
\* has not finished.
C36_Witness ==
    /\ am_pc = "returned" /\ ~am_timed_out
    /\ Len(am_agents) = 3 /\ am_k = 1
    /\ Len(completion_order) = 2
    /\ \E i \in DOMAIN am_tasks : am_tasks[i] = "cancelled"
    /\ am_returned = am_results[completion_order[1]]

\* C37: bounded fan-out: at most max_concurrent agent functions execute at
\* any moment; an agent starts only from the wait for the semaphore and when
\* fewer than max_concurrent agents execute, and an agent that has completed,
\* failed or been cancelled executes no more and never starts again.
C37_BoundedFanOut ==
    /\ [](Cardinality(Running(am_tasks)) <= am_max_concurrent)
    /\ [][\A i \in DOMAIN am_tasks :
            /\ (am_tasks[i] # "running" /\ am_tasks'[i] = "running")
                  => /\ am_tasks[i] = "waiting"
                     /\ Cardinality(Running(am_tasks)) < am_max_concurrent
            /\ am_tasks[i] \in {"done", "cancelled"} => am_tasks'[i] = am_tasks[i]]_vars
\* With max_concurrent 1, one of three agents executes while one has
\* finished and one waits for the semaphore.
C37_Witness ==
    /\ am_max_concurrent = 1
    /\ Len(am_agents) = 3
    /\ \E i, j, l \in DOMAIN am_tasks :
          am_tasks[i] = "done" /\ am_tasks[j] = "running" /\ am_tasks[l] = "waiting"

\* Every agent has returned or raised.
C38_AllFinished == \A i \in DOMAIN am_tasks : am_tasks[i] = "done"

\* C38: first_to_ahead_by_k returns as soon as every agent has finished:
\* when all agents have returned or raised, the caller's next wake-up from
\* its sleep leaves the loop and returns (or raises), it does not go on
\* sleeping until the timeout.
C38_ReturnsWhenAllFinished ==
    (am_pc = "sleep" /\ C38_AllFinished) => ENABLED <<Wakes>>_vars

(***************************************************************************)
(* Part VIII.  strict_json_parser of agents.core.maker                     *)
(*                                                                         *)
(* A response is a sequence of tokens: "{" and "}", the members "1" and    *)
(* "2" (the text "v": 1 and "v": 2), the key "w" (the text "w": in front   *)
(* of a value), and "x" (any other text).  Indices are the code's, from 0. *)
(***************************************************************************)

\* --- bounds of the model
MaxResponseLen == 5

Tokens == {"{", "}", "1", "2", "w", "x"}
Responses == UNION { [1..n -> Tokens] : n \in 0..MaxResponseLen }

\* response[i] and response[start:end]
At(response, i) == response[i + 1]
Slice(response, start, end) == SubSeq(response, start + 1, end)

\* json.loads of a slice: the objects {}, {"v": 1}, {"v": 2} and {"w": <object>},
\* as a dict with the values of its keys (None: the key is absent); None for
\* a text that raises JSONDecodeError.
Dict(v, w) == Some([v |-> v, w |-> w])
RECURSIVE JsonLoads(_)
JsonLoads(s) ==
    IF Len(s) < 2 \/ s[1] # "{" \/ s[Len(s)] # "}" THEN None
    ELSE LET inner == SubSeq(s, 2, Len(s) - 1) IN
         IF inner = << >> THEN Dict(None, None)
         ELSE IF inner = <<"1">> THEN Dict(Some(1), None)
         ELSE IF inner = <<"2">> THEN Dict(Some(2), None)
         ELSE IF inner[1] = "w" /\ JsonLoads(Tail(inner)) # None
         THEN Dict(None, JsonLoads(Tail(inner)))
         ELSE None

\* model.model_validate(data) for a model with the one required field v: int
\* (other keys are ignored): the instance, or None for a ValidationError.
ModelValidate(data) ==
    IF data[1].v = None THEN None ELSE Some([v |-> data[1].v[1]])

\* Lines 29-30: parse and validate the slice; None when either raises.
ParseSlice(s) ==
    IF JsonLoads(s) = None THEN None ELSE ModelValidate(JsonLoads(s))

\* Lines 24-28, the state of the scan after looking at character c at index i.
EndAfter(c, i) == IF c = "}" /\ brace_count = 0 THEN i + 1 ELSE sj_end
CountAfter(c) ==
    IF c = "}" THEN brace_count + 1
    ELSE IF c = "{" THEN brace_count - 1
    ELSE brace_count
\* Line 28: the scan has found the pair it looks for.
Found(c) == c = "{" /\ CountAfter(c) = 0 /\ sj_end # -1

StrictJsonInit ==
    /\ sj_response \in Responses
    /\ sj_i = Len(sj_response) - 1
    /\ brace_count = 0
    /\ sj_end = -1
    /\ sj_pc = "scan"
    /\ sj_returned = None

StrictJsonIdle ==
    /\ sj_response = << >>
    /\ sj_i = -1
    /\ brace_count = 0
    /\ sj_end = -1
    /\ sj_pc = "idle"
    /\ sj_returned = None

\* One pass of the loop of lines 23-30 that goes on to the next index.
ScanStep ==
    /\ sj_pc = "scan"
    /\ sj_i >= 0
    /\ ~Found(At(sj_response, sj_i))
    /\ sj_end' = EndAfter(At(sj_response, sj_i), sj_i)
    /\ brace_count' = CountAfter(At(sj_response, sj_i))
    /\ sj_i' = sj_i - 1
    /\ UNCHANGED <<sj_response, sj_pc, sj_returned>>
    /\ UNCHANGED <<mkVars, orchVars, memVars, chunkVars, searchVars, quotaVars,
                   amVars, exVars, igVars, ldVars, wcVars, fwVars, vfVars>>

\* The pass that finds the pair: lines 28-30 return the validated object, or
\* lines 32-34 turn the error of json.loads or model_validate into RedFlagError.
ScanFinds ==
    /\ sj_pc = "scan"
    /\ sj_i >= 0
    /\ Found(At(sj_response, sj_i))
    /\ brace_count' = 0
    /\ sj_returned' = ParseSlice(Slice(sj_response, sj_i, sj_end))
    /\ sj_pc' = IF sj_returned' = None THEN "raised" ELSE "returned"
    /\ UNCHANGED <<sj_response, sj_i, sj_end>>
    /\ UNCHANGED <<mkVars, orchVars, memVars, chunkVars, searchVars, quotaVars,
                   amVars, exVars, igVars, ldVars, wcVars, fwVars, vfVars>>

\* Lines 31-34: the loop is over, ValueError becomes RedFlagError.
ScanEnds ==
    /\ sj_pc = "scan"
    /\ sj_i = -1
    /\ sj_pc' = "raised"
    /\ UNCHANGED <<sj_response, sj_i, brace_count, sj_end, sj_returned>>
    /\ UNCHANGED <<mkVars, orchVars, memVars, chunkVars, searchVars, quotaVars,
                   amVars, exVars, igVars, ldVars, wcVars, fwVars, vfVars>>

StrictJsonNext ==
    \/ ScanStep
    \/ ScanFinds
    \/ ScanEnds

\* ---- Properties of Part VIII (checked under StrictJsonSpec)

\* The number of token t among response[a..b] (indices from 1).
RECURSIVE C28_Count(_, _, _, _)
C28_Count(s, a, b, t) ==
    IF a > b THEN 0
    ELSE (IF s[a] = t THEN 1 ELSE 0) + C28_Count(s, a + 1, b, t)
\* s[a..b] is a complete object: the "{" at a is closed by the "}" at b.
C28_Complete(s, a, b) ==
    /\ s[a] = "{" /\ s[b] = "}"
    /\ C28_Count(s, a, b, "{") = C28_Count(s, a, b, "}")
    /\ \A c \in a..(b - 1) : C28_Count(s, a, c, "{") > C28_Count(s, a, c, "}")
C28_Objects(s) ==
    { p \in (1..Len(s)) \X (1..Len(s)) : p[1] < p[2] /\ C28_Complete(s, p[1], p[2]) }
\* The complete objects that lie in no other complete object.
C28_TopLevel(s) ==
    { p \in C28_Objects(s) :
        ~\E q \in C28_Objects(s) : q[1] < p[1] /\ p[2] < q[2] }
C28_Last(s) ==
    CHOOSE p \in C28_TopLevel(s) : \A q \in C28_TopLevel(s) : q[2] <= p[2]
\* What the contract asks for: None is RedFlagError.
C28_Expected(s) ==
    IF C28_TopLevel(s) = {} THEN None
    ELSE ParseSlice(SubSeq(s, C28_Last(s)[1], C28_Last(s)[2]))

\* C28: strict_json_parser returns the validated last complete top-level
\* object of the response, and raises RedFlagError exactly when the response
\* holds no complete top-level object or that object is invalid JSON or
\* violates the schema.
C28_LastCompleteObject ==
    sj_pc \in {"returned", "raised"} => sj_returned = C28_Expected(sj_response)

(***************************************************************************)
(* Part IX.  JSON export of ExporterAgent                                  *)
(*                                                                         *)
(* A Python value is a node [t, a, items]: t its type, a the text of a     *)
(* scalar, items the elements of a list or the entries of a dict (an entry *)
(* is a node with the key and the value as items).  The exported text is a *)
(* sequence of JSON tokens and whitespace.                                 *)
(***************************************************************************)

\* --- bounds of the model
MaxDepth == 2
MaxItems == 2

PyScalar(t, a) == [t |-> t, a |-> a, items |-> << >>]
PyList(items) == [t |-> "list", a |-> "", items |-> items]
PyEntry(key, val) == [t |-> "entry", a |-> "", items |-> <<key, val>>]
PyDict(entries) == [t |-> "dict", a |-> "", items |-> entries]

\* None, True, 1, 1.5, float("nan"), "1"
Scalars ==
    { PyScalar("none", "null"), PyScalar("bool", "true"), PyScalar("int", "1"),
      PyScalar("float", "1.5"), PyScalar("float", "nan"), PyScalar("str", "1") }
\* The keys of the dicts: "1" and 1.
Keys == { PyScalar("str", "1"), PyScalar("int", "1") }

\* The sequences of at most MaxItems elements of S.
SeqsOf(S) == UNION { [1..n -> S] : n \in 0..MaxItems }
\* The trees of scalars, lists and dicts of depth at most d; the keys of a
\* dict are distinct.
RECURSIVE Trees(_)
Trees(d) ==
    IF d = 0 THEN Scalars
    ELSE Scalars
         \cup { PyList(s) : s \in SeqsOf(Trees(d - 1)) }
         \cup { PyDict([i \in DOMAIN ks |-> PyEntry(ks[i], vs[i])]) :
                  <<ks, vs>> \in { p \in SeqsOf(Keys) \X SeqsOf(Trees(d - 1)) :
                      /\ Len(p[1]) = Len(p[2])
                      /\ \A i, j \in DOMAIN p[1] : p[1][i] = p[1][j] => i = j } }

\* The text of a JSON string.
Quote(a) == "\"" \o a \o "\""
Texts == { v.a : v \in Scalars }
\* json.dumps of a scalar; float("nan") is written NaN (allow_nan).
DumpScalar(v) ==
    IF v.t = "str" THEN Quote(v.a)
    ELSE IF v.t = "float" /\ v.a = "nan" THEN "NaN"
    ELSE v.a
\* json.dumps of a key: a key that is not a str is written as the string of
\* its value.
DumpKey(key) == Quote(key.a)

\* json.dumps(data, indent=indent): with an indent every element starts on a
\* line of its own, without one the separators are ", " and ": ".
Break(indent) == IF indent = None THEN << >> ELSE <<" ">>
RECURSIVE JsonDumps(_, _)
RECURSIVE DumpItems(_, _)
JsonDumps(v, indent) ==
    IF v.t = "list"
    THEN IF v.items = << >> THEN <<"[", "]">>
         ELSE <<"[">> \o Break(indent) \o DumpItems(v.items, indent)
                      \o Break(indent) \o <<"]">>
    ELSE IF v.t = "dict"
    THEN IF v.items = << >> THEN <<"{", "}">>
         ELSE <<"{">> \o Break(indent) \o DumpItems(v.items, indent)
                      \o Break(indent) \o <<"}">>
    ELSE IF v.t = "entry"
    THEN <<DumpKey(v.items[1]), ":", " ">> \o JsonDumps(v.items[2], indent)
    ELSE <<DumpScalar(v)>>
DumpItems(items, indent) ==
    IF Len(items) = 1 THEN JsonDumps(items[1], indent)
    ELSE JsonDumps(items[1], indent) \o <<",", " ">> \o DumpItems(Tail(items), indent)

\* Python's ==: bool, int and float compare by value and nan equals nothing;
\* lists compare element by element, dicts entry by entry whatever the order.
IsNumber(v) == v.t \in {"bool", "int", "float"}
NumberOf(v) == IF v.a = "true" THEN "1" ELSE v.a
RECURSIVE PyEq(_, _)
PyEq(x, y) ==
    IF x.t = "list" \/ y.t = "list"
    THEN /\ x.t = y.t
         /\ Len(x.items) = Len(y.items)
         /\ \A i \in DOMAIN x.items : PyEq(x.items[i], y.items[i])
    ELSE IF x.t = "dict" \/ y.t = "dict"
    THEN /\ x.t = y.t
         /\ Len(x.items) = Len(y.items)
         /\ \A i \in DOMAIN x.items : \E j \in DOMAIN y.items :
               /\ PyEq(x.items[i].items[1], y.items[j].items[1])
               /\ PyEq(x.items[i].items[2], y.items[j].items[2])
    ELSE IF IsNumber(x) /\ IsNumber(y)
    THEN x.a # "nan" /\ y.a # "nan" /\ NumberOf(x) = NumberOf(y)
    ELSE x.t = y.t /\ x.a = y.a

\* json.loads of a scalar token.
LoadScalar(tok) ==
    IF tok = "null" THEN PyScalar("none", "null")
    ELSE IF tok = "true" THEN PyScalar("bool", "true")
    ELSE IF tok = "NaN" THEN PyScalar("float", "nan")
    ELSE IF tok = "1" THEN PyScalar("int", "1")
    ELSE IF tok = "1.5" THEN PyScalar("float", "1.5")
    ELSE PyScalar("str", CHOOSE a \in Texts : Quote(a) = tok)

\* d[key] = val on the entries of a dict.
SetItem(entries, key, val) ==
    IF \E i \in DOMAIN entries : PyEq(entries[i].items[1], key)
    THEN [i \in DOMAIN entries |->
             IF PyEq(entries[i].items[1], key) THEN PyEntry(entries[i].items[1], val)
             ELSE entries[i]]
    ELSE Append(entries, PyEntry(key, val))

\* The JSON decoder: each operator takes the tokens that are left and gives
\* the value it read and the tokens after it.
RECURSIVE ReadValue(_)
RECURSIVE ReadElements(_, _)
RECURSIVE ReadMembers(_, _)
ReadValue(s) ==
    IF Head(s) = "[" THEN ReadElements(Tail(s), << >>)
    ELSE IF Head(s) = "{" THEN ReadMembers(Tail(s), << >>)
    ELSE [v |-> LoadScalar(Head(s)), rest |-> Tail(s)]
ReadElements(s, acc) ==
    IF Head(s) = "]" THEN [v |-> PyList(acc), rest |-> Tail(s)]
    ELSE LET r == ReadValue(s) IN
         IF Head(r.rest) = ","
         THEN ReadElements(Tail(r.rest), Append(acc, r.v))
         ELSE [v |-> PyList(Append(acc, r.v)), rest |-> Tail(r.rest)]
ReadMembers(s, acc) ==
    IF Head(s) = "}" THEN [v |-> PyDict(acc), rest |-> Tail(s)]
    ELSE LET key == LoadScalar(Head(s))
             r == ReadValue(Tail(Tail(s)))
         IN  IF Head(r.rest) = ","
             THEN ReadMembers(Tail(r.rest), SetItem(acc, key, r.v))
             ELSE [v |-> PyDict(SetItem(acc, key, r.v)), rest |-> Tail(r.rest)]
\* json.loads: whitespace between the tokens is skipped.
NotSpace(tok) == tok # " "
JsonLoadsText(text) == ReadValue(SelectSeq(text, NotSpace)).v

\* Line 67: options.get("indent", 2).
IndentOf(options) == IF options = None THEN Some(2) ELSE options[1]

ExportInit ==
    /\ ex_data \in Trees(MaxDepth)
    /\ ex_options \in {None, Some(None), Some(Some(2))}
    /\ ex_json = None
    /\ ex_parsed = None
    /\ ex_pc = "request"

ExportIdle ==
    /\ ex_data = PyScalar("none", "null")
    /\ ex_options = None
    /\ ex_json = None
    /\ ex_parsed = None
    /\ ex_pc = "idle"

\* ExporterAgent.export with format "json": _export_json, lines 63-69 (the
\* byte count of the text is not kept).
ExportJson ==
    /\ ex_pc = "request"
    /\ ex_json' = Some(JsonDumps(ex_data, IndentOf(ex_options)))
    /\ ex_pc' = "exported"
    /\ UNCHANGED <<ex_data, ex_options, ex_parsed>>
    /\ UNCHANGED <<mkVars, orchVars, memVars, chunkVars, searchVars, quotaVars,
                   amVars, sjVars, igVars, ldVars, wcVars, fwVars, vfVars>>

\* The receiver parses ExportResult.data with json.loads.
ParseExport ==
    /\ ex_pc = "exported"
    /\ ex_parsed' = Some(JsonLoadsText(ex_json[1]))
    /\ ex_pc' = "parsed"
    /\ UNCHANGED <<ex_data, ex_options, ex_json>>
    /\ UNCHANGED <<mkVars, orchVars, memVars, chunkVars, searchVars, quotaVars,
                   amVars, sjVars, igVars, ldVars, wcVars, fwVars, vfVars>>

ExportNext ==
    \/ ExportJson
    \/ ParseExport

\* ---- Properties of Part IX (checked under ExportSpec)

\* C26: JSON export round trip: for every tree of scalars, lists and dicts,
\* parsing the exported text gives a value equal to the exported data.
C26_JsonRoundTrip ==
    ex_pc = "parsed" => PyEq(ex_parsed[1], ex_data)

(***************************************************************************)
(* Part X.  Ingestion of a file by the connectors                          *)
(*                                                                         *)
(* One new file (its hash is not in memory_hashes) arrives as a Drive      *)
(* file, as a GCS event or as an email attachment.  A text is its length   *)
(* in chunks: 0 is the empty text, and semantic_chunk gives as many chunks *)
(* as the text is long.                                                    *)
(***************************************************************************)

\* --- bounds of the model
MaxFileChunks == 2

Paths == {"drive", "gcs", "email"}
MimeTypes == {"text/plain", "application/pdf", "application/octet-stream"}

\* extract_text, lines 321-422: text formats are decoded, a PDF (or another
\* format with an extractor) gives its text or "" when the extractor raises,
\* an unsupported media type gives "".
ExtractText(content, mime_type, extractor_ok) ==
    IF mime_type = "text/plain" THEN content
    ELSE IF mime_type = "application/pdf" THEN (IF extractor_ok THEN content ELSE 0)
    ELSE 0
\* len(semantic_chunk(text)): the loop of lines 175-190 runs while tokens
\* are left.
ChunksOfText(text) == text

IngestInit ==
    /\ ig_path \in Paths
    /\ ig_mime_type \in MimeTypes
    /\ ig_extractor_ok \in BOOLEAN
    /\ ig_content \in 0..MaxFileChunks
    /\ ig_text = None
    /\ ig_pc = "start"
    /\ ig_i = 0
    /\ ig_doc = None
    /\ ig_chunks = 0
    /\ ig_hash = FALSE

IngestIdle ==
    /\ ig_path = "drive"
    /\ ig_mime_type = "text/plain"
    /\ ig_extractor_ok = TRUE
    /\ ig_content = 0
    /\ ig_text = None
    /\ ig_pc = "idle"
    /\ ig_i = 0
    /\ ig_doc = None
    /\ ig_chunks = 0
    /\ ig_hash = FALSE

\* process_drive_file, lines 497-566: drive_service and e are local names of
\* the function that are not bound when lines 512 and 564 read them, so the
\* call ends (return 0 of line 521, or UnboundLocalError) before extract_text.
DriveFileEnds ==
    /\ ig_pc = "start" /\ ig_path = "drive"
    /\ ig_pc' = "done"
    /\ UNCHANGED <<ig_path, ig_mime_type, ig_extractor_ok, ig_content, ig_text,
                   ig_i, ig_doc, ig_chunks, ig_hash>>
    /\ UNCHANGED <<mkVars, orchVars, memVars, chunkVars, searchVars, quotaVars,
                   amVars, sjVars, exVars, ldVars, wcVars, fwVars, vfVars>>

\* gcs_eventarc_handler, lines 849-876: download, dedupe check, extraction
\* and chunking; the store follows whatever the text is.
GcsExtracts ==
    /\ ig_pc = "start" /\ ig_path = "gcs"
    /\ ig_text' = Some(ExtractText(ig_content, ig_mime_type, ig_extractor_ok))
    /\ ig_pc' = "doc"
    /\ UNCHANGED <<ig_path, ig_mime_type, ig_extractor_ok, ig_content,
                   ig_i, ig_doc, ig_chunks, ig_hash>>
    /\ UNCHANGED <<mkVars, orchVars, memVars, chunkVars, searchVars, quotaVars,
                   amVars, sjVars, exVars, ldVars, wcVars, fwVars, vfVars>>

\* process_email_attachments, connectors lines 106-121: an attachment with
\* an empty text is passed over ("if text:").
EmailExtracts ==
    /\ ig_pc = "start" /\ ig_path = "email"
    /\ ig_text' = Some(ExtractText(ig_content, ig_mime_type, ig_extractor_ok))
    /\ ig_pc' = IF ig_text'[1] # 0 THEN "doc" ELSE "done"
    /\ UNCHANGED <<ig_path, ig_mime_type, ig_extractor_ok, ig_content,
                   ig_i, ig_doc, ig_chunks, ig_hash>>
    /\ UNCHANGED <<mkVars, orchVars, memVars, chunkVars, searchVars, quotaVars,
                   amVars, sjVars, exVars, ldVars, wcVars, fwVars, vfVars>>

\* memory_docs.document(file_id).set({... "chunk_count": len(chunks) ...}),
\* lines 877-886 and connectors lines 126-138.
StoreDocument ==
    /\ ig_pc = "doc"
    /\ ig_doc' = Some(ChunksOfText(ig_text[1]))
    /\ ig_pc' = IF ChunksOfText(ig_text[1]) > 0 THEN "chunk" ELSE "hash"
    /\ UNCHANGED <<ig_path, ig_mime_type, ig_extractor_ok, ig_content, ig_text,
                   ig_i, ig_chunks, ig_hash>>
    /\ UNCHANGED <<mkVars, orchVars, memVars, chunkVars, searchVars, quotaVars,
                   amVars, sjVars, exVars, ldVars, wcVars, fwVars, vfVars>>

\* chunks.add(...), one pass of the loop of lines 888-897 and connectors
\* lines 140-147.
StoreChunk ==
    /\ ig_pc = "chunk"
    /\ ig_chunks' = ig_chunks + 1
    /\ ig_i' = ig_i + 1
    /\ ig_pc' = IF ig_i + 1 < ChunksOfText(ig_text[1]) THEN "chunk" ELSE "hash"
    /\ UNCHANGED <<ig_path, ig_mime_type, ig_extractor_ok, ig_content, ig_text,
                   ig_doc, ig_hash>>
    /\ UNCHANGED <<mkVars, orchVars, memVars, chunkVars, searchVars, quotaVars,
                   amVars, sjVars, exVars, ldVars, wcVars, fwVars, vfVars>>

\* memory_hashes.document(content_hash).set(...), lines 899-905 and
\* connectors lines 149-153.
StoreHash ==
    /\ ig_pc = "hash"
    /\ ig_hash' = TRUE
    /\ ig_pc' = "done"
    /\ UNCHANGED <<ig_path, ig_mime_type, ig_extractor_ok, ig_content, ig_text,
                   ig_i, ig_doc, ig_chunks>>
    /\ UNCHANGED <<mkVars, orchVars, memVars, chunkVars, searchVars, quotaVars,
                   amVars, sjVars, exVars, ldVars, wcVars, fwVars, vfVars>>

IngestNext ==
    \/ DriveFileEnds
    \/ GcsExtracts
    \/ EmailExtracts
    \/ StoreDocument
    \/ StoreChunk
    \/ StoreHash

\* ---- Properties of Part X (checked under IngestSpec)

\* C32: a file whose extraction yields the empty text is skipped on every
\* path: no document, no chunk and no memory_hashes entry is written for it.
C32_EmptyTextSkipped ==
    ExtractText(ig_content, ig_mime_type, ig_extractor_ok) = 0
        => (ig_doc = None /\ ig_chunks = 0 /\ ~ig_hash)

(***************************************************************************)
(* Part XI.  Folder enumeration: list_drive_files_recursive                *)
(*                                                                         *)
(* The folders and files of a Drive with the "in parents" relation; the    *)
(* call lists folder 1.  A listing returns the items of a folder in the    *)
(* order of their ids, the folders before the files.                       *)
(***************************************************************************)

\* --- bounds of the model
MaxFolders == 3
MaxFiles == 1
\* The listings of one call that are followed.
MaxListings == 4

Folders == 1..MaxFolders
Files == 1..MaxFiles

\* The items of the pages of lines 442-463 for a folder: its subfolders and
\* its files.
SubfoldersOf(folder) == InOrder(fg_subfolders[folder])
FilesOf(folder) == InOrder({ f \in Files : fg_folder_of[f] = folder })

ListInit ==
    /\ fg_subfolders \in { g \in [Folders -> SUBSET Folders] :
                              \A f \in Folders : f \notin g[f] }
    /\ fg_folder_of \in [Files -> Folders]
    /\ ld_recursive \in BOOLEAN
    /\ folders_to_process = <<1>>
    /\ all_files = << >>
    /\ ld_visits = << >>
    /\ ld_pc = "loop"

ListIdle ==
    /\ fg_subfolders = << >>
    /\ fg_folder_of = << >>
    /\ ld_recursive = TRUE
    /\ folders_to_process = << >>
    /\ all_files = << >>
    /\ ld_visits = << >>
    /\ ld_pc = "idle"

\* list.pop(): the last element and the rest.
Top(stack) == stack[Len(stack)]
Popped(stack) == SubSeq(stack, 1, Len(stack) - 1)

\* One pass of the loop of lines 435-463: the folder on top of the stack is
\* listed, its subfolders are pushed (when recursive) and its files added.
ProcessFolder ==
    /\ ld_pc = "loop"
    /\ folders_to_process # << >>
    /\ Len(ld_visits) < MaxListings
    /\ LET current_folder == Top(folders_to_process) IN
         /\ folders_to_process' =
               Popped(folders_to_process)
               \o (IF ld_recursive THEN SubfoldersOf(current_folder) ELSE << >>)
         /\ all_files' = all_files \o FilesOf(current_folder)
         /\ ld_visits' = Append(ld_visits, current_folder)
    /\ UNCHANGED <<fg_subfolders, fg_folder_of, ld_recursive, ld_pc>>
    /\ UNCHANGED <<mkVars, orchVars, memVars, chunkVars, searchVars, quotaVars,
                   amVars, sjVars, exVars, igVars, wcVars, fwVars, vfVars>>

\* Lines 435 and 465-466: the stack is empty, all_files is returned.
ListReturns ==
    /\ ld_pc = "loop"
    /\ folders_to_process = << >>
    /\ ld_pc' = "returned"
    /\ UNCHANGED <<fg_subfolders, fg_folder_of, ld_recursive, folders_to_process,
                   all_files, ld_visits>>
    /\ UNCHANGED <<mkVars, orchVars, memVars, chunkVars, searchVars, quotaVars,
                   amVars, sjVars, exVars, igVars, wcVars, fwVars, vfVars>>

ListFilesNext ==
    \/ ProcessFolder
    \/ ListReturns

\* ---- Properties of Part XI (checked under ListSpec)

\* C33: list_drive_files_recursive lists each folder at most once and
\* returns each file at most once, whatever the folder graph (cycles and
\* folders with several parents included).
C33_EachFolderOnce ==
    /\ \A i, j \in 1..Len(ld_visits) : ld_visits[i] = ld_visits[j] => i = j
    /\ \A i, j \in 1..Len(all_files) : all_files[i] = all_files[j] => i = j

(***************************************************************************)
(* Part XII.  Drive watch channels: start_watch, drive_webhook,            *)
(* renew_watch_channels                                                    *)
(*                                                                         *)
(* watch_channels maps a channel id to its folder and expiration.  A       *)
(* channel id is a fresh number (uuid4); time is counted in hours.  The    *)
(* body of one pass of renew_watch_channels has no suspension point        *)
(* (start_watch never awaits), so a pass is one step.                      *)
(***************************************************************************)

\* --- bounds of the model
MaxWatched == 2
MaxChannels == 3
MaxHours == 12
MaxReingests == 1
\* The clock is followed in steps of HoursPerStep hours.
HoursPerStep == 12

WatchedFolders == 1..MaxWatched
ChannelIds == 1..MaxChannels
\* ttl_hours of a request; 24 is the default of WatchChannelRequest.
TtlHours == {6, 24}
\* Line 806: a channel is renewed when it expires within 12 hours.
RenewWindow == 12
\* Line 814: the ttl of a renewed channel.
RenewTtl == 24

WatchInit ==
    /\ watch_channels = {}
    /\ wc_stopped = {}
    /\ wc_next_id = 1
    /\ wc_now = 0
    /\ wc_requests = [f \in WatchedFolders |-> 0]
    /\ wc_tasks = << >>
    /\ wc_last = None

WatchIdle ==
    /\ watch_channels = {}
    /\ wc_stopped = {}
    /\ wc_next_id = 0
    /\ wc_now = 0
    /\ wc_requests = << >>
    /\ wc_tasks = << >>
    /\ wc_last = None

\* The registry, the stopped channels and the next id, as start_watch and
\* a pass of renew_watch_channels change them.
Registry(channels, stopped, next) ==
    [channels |-> channels, stopped |-> stopped, next |-> next]

\* Lines 724-751 of start_watch: a fresh channel id, the expiration, the
\* watch request and the new entry of watch_channels.  No entry is removed.
StoreChannel(reg, folder_id, ttl_hours, now) ==
    Registry(reg.channels \cup
                 {[id |-> reg.next, folder_id |-> folder_id,
                   expiration |-> now + ttl_hours]},
             reg.stopped, reg.next + 1)

\* POST /watch/start.  The request fails without a change when the quota
\* is exhausted or the Drive call raises (lines 719-722, 761-763).
StartWatch(folder_id, ttl_hours, ok) ==
    /\ wc_next_id <= MaxChannels
    /\ wc_requests[folder_id] < MaxChannels
    /\ LET reg == StoreChannel(
                      Registry(watch_channels, wc_stopped, wc_next_id),
                      folder_id, ttl_hours, wc_now)
       IN  IF ok
           THEN /\ watch_channels' = reg.channels
                /\ wc_next_id' = reg.next
                /\ wc_requests' =
                       [wc_requests EXCEPT ![folder_id] = @ + 1]
           ELSE UNCHANGED <<watch_channels, wc_next_id, wc_requests>>
    /\ UNCHANGED <<wc_stopped, wc_now, wc_tasks, wc_last>>
    /\ UNCHANGED <<mkVars, orchVars, memVars, chunkVars, searchVars,
                   quotaVars, amVars, sjVars, exVars, igVars, ldVars, fwVars, vfVars>>

\* Line 806.
Expiring(info, now) == info.expiration - now < RenewWindow

\* What the try block of lines 807-821 does for one channel.
RenewOutcomes == {"renewed", "stop_failed", "start_failed"}

\* Lines 807-824 for one channel: channels().stop for the old channel, then
\* start_watch for its folder; an exception of either ends the block.
RenewOne(reg, info, now, outcome) ==
    IF ~Expiring(info, now) \/ outcome = "stop_failed"
    THEN reg
    ELSE LET stopped == Registry(reg.channels,
                                 reg.stopped \cup {info.id}, reg.next)
         IN  IF outcome = "start_failed"
             THEN stopped
             ELSE StoreChannel(stopped, info.folder_id, RenewTtl, now)

\* The record of a registered channel id.
InfoOf(channels, channel_id) ==
    CHOOSE info \in channels : info.id = channel_id

\* The loop of line 802 over list(watch_channels.items()), in the order of
\* insertion; todo holds the ids still to visit.
RECURSIVE RenewAll(_, _, _, _, _)
RenewAll(reg, snapshot, todo, now, outcomes) ==
    IF todo = << >>
    THEN reg
    ELSE RenewAll(RenewOne(reg, InfoOf(snapshot, Head(todo)), now,
                           outcomes[Head(todo)]),
                  snapshot, Tail(todo), now, outcomes)

\* One pass of renew_watch_channels (lines 799-824).
RenewWatchChannels ==
    /\ watch_channels # {}
    /\ \E outcomes \in [{ c.id : c \in watch_channels } -> RenewOutcomes] :
         LET reg == RenewAll(
                        Registry(watch_channels, wc_stopped, wc_next_id),
                        watch_channels,
                        InOrder({ c.id : c \in watch_channels }),
                        wc_now, outcomes)
         IN  /\ reg.next <= MaxChannels + 1
             /\ watch_channels' = reg.channels
             /\ wc_stopped' = reg.stopped
             /\ wc_next_id' = reg.next
    /\ UNCHANGED <<wc_now, wc_requests, wc_tasks, wc_last>>
    /\ UNCHANGED <<mkVars, orchVars, memVars, chunkVars, searchVars,
                   quotaVars, amVars, sjVars, exVars, igVars, ldVars, fwVars, vfVars>>

\* Time passes (the sleep of line 799 and the time between requests).
TimePasses ==
    /\ wc_now + HoursPerStep <= MaxHours
    /\ wc_now' = wc_now + HoursPerStep
    /\ UNCHANGED <<watch_channels, wc_stopped, wc_next_id, wc_requests,
                   wc_tasks, wc_last>>
    /\ UNCHANGED <<mkVars, orchVars, memVars, chunkVars, searchVars,
                   quotaVars, amVars, sjVars, exVars, igVars, ldVars, fwVars, vfVars>>

\* The status drive_webhook answers with (lines 774-788).
WebhookStatus(channels, channel_id, resource_state) ==
    IF channel_id = None
           \/ channel_id[1] \notin { c.id : c \in channels }
    THEN "ignored"
    ELSE IF resource_state = "sync" THEN "synced" ELSE "processing"

\* POST /webhook/drive with the headers x-goog-channel-id (None when
\* missing) and x-goog-resource-state.
DriveWebhook(channel_id, resource_state) ==
    LET status == WebhookStatus(watch_channels, channel_id, resource_state)
    IN  /\ status = "processing" => Len(wc_tasks) < MaxReingests
        /\ wc_last' = Some([channel_id |-> channel_id,
                            was_stopped |-> /\ channel_id # None
                                            /\ channel_id[1] \in wc_stopped,
                            status |-> status])
        /\ wc_tasks' =
               IF status = "processing"
               THEN Append(wc_tasks,
                           InfoOf(watch_channels, channel_id[1]).folder_id)
               ELSE wc_tasks
        /\ UNCHANGED <<watch_channels, wc_stopped, wc_next_id, wc_now,
                       wc_requests>>
        /\ UNCHANGED <<mkVars, orchVars, memVars, chunkVars, searchVars,
                       quotaVars, amVars, sjVars, exVars, igVars, ldVars, fwVars, vfVars>>

\* The background task re_ingest_folder runs (lines 790-794); what it
\* ingests is the subject of Parts III, X and XI.
ReIngestFolder ==
    /\ wc_tasks # << >>
    /\ wc_tasks' = Tail(wc_tasks)
    /\ UNCHANGED <<watch_channels, wc_stopped, wc_next_id, wc_now,
                   wc_requests, wc_last>>
    /\ UNCHANGED <<mkVars, orchVars, memVars, chunkVars, searchVars,
                   quotaVars, amVars, sjVars, exVars, igVars, ldVars, fwVars, vfVars>>

WatchNext ==
    \/ \E folder_id \in WatchedFolders, ttl_hours \in TtlHours,
          ok \in BOOLEAN :
         StartWatch(folder_id, ttl_hours, ok)
    \/ RenewWatchChannels
    \/ TimePasses
    \/ \E channel_id \in {None} \cup { Some(c) : c \in ChannelIds },
          resource_state \in {"sync", "update"} :
         DriveWebhook(channel_id, resource_state)
    \/ ReIngestFolder

\* The registered channels of a folder.
C34_ChannelsOf(folder_id) ==
    { c \in watch_channels : c.folder_id = folder_id }

\* The folders for which a watch was started.
C34_Started == { f \in WatchedFolders : wc_requests[f] > 0 }

\* C34: watch-channel renewal replaces the channel.  After any number of
\* passes of renew_watch_channels: a folder whose watch was started once
\* has at most one registered channel; a channel stopped by a renewal is
\* no longer registered and a notification for it is answered "ignored";
\* and there are never more registered channels than successful
\* /watch/start requests, so on folders started once never more than
\* started folders.
C34_RenewalReplaces ==
    /\ \A f \in WatchedFolders :
         wc_requests[f] <= 1 => Cardinality(C34_ChannelsOf(f)) <= 1
    /\ \A c \in watch_channels : c.id \notin wc_stopped
    /\ wc_last # None /\ wc_last[1].was_stopped
           => wc_last[1].status = "ignored"
    /\ Cardinality(watch_channels)
           <= Cardinality(C34_Started) + Cardinality(
                  { f \in WatchedFolders : wc_requests[f] > 1 })
                  * MaxChannels

(***************************************************************************)
(* Part XIII.  The file-share poller: start_fileshare_watch,               *)
(* poll_file_share, stop_fileshare_watch                                   *)
(*                                                                         *)
(* One share path, hence one watcher_id.  Every successful start creates   *)
(* a new watcher dict and a new poller task; a poller holds a reference to *)
(* the dict it found in file_share_watchers when it first ran.  A scan     *)
(* (lines 222-246) has no suspension point and is one step; the poller     *)
(* sleeps between scans.  process_local_file is called synchronously and   *)
(* its exceptions are caught (lines 238-242), so a file handed to it is    *)
(* recorded in last_check whatever it does.                                *)
(***************************************************************************)

\* --- bounds of the model
MaxShareFiles == 2
MaxMtime == 2
MaxWatchers == 2

ShareFiles == 1..MaxShareFiles
Mtimes == 1..MaxMtime

FileShareInit ==
    /\ fs_mtime \in [ShareFiles -> {None} \cup { Some(m) : m \in Mtimes }]
    /\ fw_watchers = << >>
    /\ file_share_watchers = None
    /\ fw_pollers = << >>
    /\ fw_last = None

FileShareIdle ==
    /\ fs_mtime = << >>
    /\ fw_watchers = << >>
    /\ file_share_watchers = None
    /\ fw_pollers = << >>
    /\ fw_last = None

\* POST of a watch request for the share (lines 169-213): "already
\* watching" when the id is registered, else a new watcher dict with an
\* empty last_check and a new poller task.
StartFileshareWatch ==
    /\ Len(fw_watchers) < MaxWatchers
    /\ IF file_share_watchers # None
       THEN UNCHANGED <<fw_watchers, file_share_watchers, fw_pollers>>
       ELSE /\ fw_watchers' =
                   Append(fw_watchers,
                          [active |-> TRUE,
                           last_check |-> [f \in ShareFiles |-> None]])
            /\ file_share_watchers' = Some(Len(fw_watchers) + 1)
            /\ fw_pollers' =
                   Append(fw_pollers, [pc |-> "created", watcher |-> 0])
    /\ UNCHANGED <<fs_mtime, fw_last>>
    /\ UNCHANGED <<mkVars, orchVars, memVars, chunkVars, searchVars,
                   quotaVars, amVars, sjVars, exVars, igVars, ldVars,
                   wcVars, vfVars>>

\* Lines 217-219: the task's first step looks the watcher up by its id.
PollerStarts(p) ==
    /\ fw_pollers[p].pc = "created"
    /\ fw_pollers' =
           [fw_pollers EXCEPT ![p] =
               IF file_share_watchers = None
               THEN [pc |-> "ended", watcher |-> 0]
               ELSE [pc |-> "loop", watcher |-> file_share_watchers[1]]]
    /\ UNCHANGED <<fs_mtime, fw_watchers, file_share_watchers, fw_last>>
    /\ UNCHANGED <<mkVars, orchVars, memVars, chunkVars, searchVars,
                   quotaVars, amVars, sjVars, exVars, igVars, ldVars,
                   wcVars, vfVars>>

\* An unconditional variant of the test of line 233.
AlwaysNew(last_check, file_key, mtime) == TRUE

\* Line 233: the file is new to the watcher or its mtime is greater than
\* the recorded one.
NewOrModified(last_check, file_key, mtime) ==
    \/ last_check[file_key] = None
    \/ last_check[file_key][1] < mtime

\* The loop test of line 221.
StillActive(watcher) == watcher.active

\* share_path.glob(pattern), filtered by is_file(): the matching files
\* present, in the order of the scan.
GlobFiles == InOrder({ f \in ShareFiles : fs_mtime[f] # None })

\* Lines 227-244 for the first n files of the scan: last_check is updated
\* in place for the files handed to process_local_file.
RECURSIVE ScanFiles(_, _, _)
ScanFiles(last_check, files, n) ==
    IF n = 0
    THEN last_check
    ELSE LET before == ScanFiles(last_check, files, n - 1)
             f == files[n]
         IN  IF NewOrModified(before, f, fs_mtime[f][1])
             THEN [before EXCEPT ![f] = fs_mtime[f]]
             ELSE before

\* The files among the first n of the scan that are handed to
\* process_local_file (line 239).
Handed(last_check, files, n) ==
    { files[i] : i \in { j \in 1..n :
          NewOrModified(ScanFiles(last_check, files, j - 1), files[j],
                        fs_mtime[files[j]][1]) } }

\* One pass of the loop of lines 221-252 of poller p.  The scan reaches
\* the first n files: all of them, or fewer when glob or stat raises and
\* the handler of line 248 ends the scan.  last_check is the watcher's own
\* dict, so what was recorded before the exception stays recorded.
PollFileShare(p, n) ==
    /\ fw_pollers[p].pc = "loop"
    /\ LET w == fw_pollers[p].watcher
           watcher == fw_watchers[w]
       IN  /\ StillActive(watcher)
           /\ n \in 0..Len(GlobFiles)
           /\ fw_watchers' =
                  [fw_watchers EXCEPT ![w].last_check =
                      ScanFiles(watcher.last_check, GlobFiles, n)]
           /\ fw_last' =
                  Some([poller |-> p,
                        watcher |-> w,
                        active |-> watcher.active,
                        before |-> watcher.last_check,
                        mtimes |-> fs_mtime,
                        reached |-> { GlobFiles[i] : i \in 1..n },
                        handed |-> Handed(watcher.last_check, GlobFiles, n)])
    /\ UNCHANGED <<fs_mtime, file_share_watchers, fw_pollers>>
    /\ UNCHANGED <<mkVars, orchVars, memVars, chunkVars, searchVars,
                   quotaVars, amVars, sjVars, exVars, igVars, ldVars,
                   wcVars, vfVars>>

\* Lines 221 and 254: the loop test fails and the task ends.
PollerEnds(p) ==
    /\ fw_pollers[p].pc = "loop"
    /\ ~StillActive(fw_watchers[fw_pollers[p].watcher])
    /\ fw_pollers' = [fw_pollers EXCEPT ![p].pc = "ended"]
    /\ UNCHANGED <<fs_mtime, fw_watchers, file_share_watchers, fw_last>>
    /\ UNCHANGED <<mkVars, orchVars, memVars, chunkVars, searchVars,
                   quotaVars, amVars, sjVars, exVars, igVars, ldVars,
                   wcVars, vfVars>>

\* stop_fileshare_watch (lines 257-265): 404 when the id is not
\* registered, else the dict is marked inactive and unregistered.
StopFileshareWatch ==
    /\ IF file_share_watchers = None
       THEN UNCHANGED <<fw_watchers, file_share_watchers>>
       ELSE /\ fw_watchers' =
                   [fw_watchers EXCEPT
                       ![file_share_watchers[1]].active = FALSE]
            /\ file_share_watchers' = None
    /\ UNCHANGED <<fs_mtime, fw_pollers, fw_last>>
    /\ UNCHANGED <<mkVars, orchVars, memVars, chunkVars, searchVars,
                   quotaVars, amVars, sjVars, exVars, igVars, ldVars,
                   wcVars, vfVars>>

\* The share changes: a file is written (any mtime, touch can set an older
\* one), created or removed.
FileChanges(f, m) ==
    /\ fs_mtime[f] # m
    /\ fs_mtime' = [fs_mtime EXCEPT ![f] = m]
    /\ UNCHANGED <<fw_watchers, file_share_watchers, fw_pollers, fw_last>>
    /\ UNCHANGED <<mkVars, orchVars, memVars, chunkVars, searchVars,
                   quotaVars, amVars, sjVars, exVars, igVars, ldVars,
                   wcVars, vfVars>>

FileShareNext ==
    \/ StartFileshareWatch
    \/ \E p \in DOMAIN fw_pollers : PollerStarts(p)
    \/ \E p \in DOMAIN fw_pollers, n \in 0..MaxShareFiles :
         PollFileShare(p, n)
    \/ \E p \in DOMAIN fw_pollers : PollerEnds(p)
    \/ StopFileshareWatch
    \/ \E f \in ShareFiles, m \in {None} \cup { Some(t) : t \in Mtimes } :
         FileChanges(f, m)

\* In the last scan, a file the scan reached was handed to ingestion
\* exactly when the watcher had no mtime for it or a smaller one; no file
\* was handed at the mtime already recorded; and the watcher was active.
C35_LastScan ==
    fw_last # None =>
        LET scan == fw_last[1]
        IN  /\ scan.handed \subseteq scan.reached
            /\ \A f \in scan.reached :
                 f \in scan.handed <=>
                     \/ scan.before[f] = None
                     \/ scan.before[f][1] < scan.mtimes[f][1]
            /\ \A f \in scan.handed : scan.before[f] # scan.mtimes[f]
            /\ scan.active

\* A step in which a stopped watcher is scanned: its last_check changes or
\* a scan of it is recorded.
C35_ScanAfterStop ==
    \E w \in DOMAIN fw_watchers :
        /\ ~fw_watchers[w].active
        /\ \/ fw_watchers'[w].last_check # fw_watchers[w].last_check
           \/ /\ fw_last' # fw_last
              /\ fw_last' # None
              /\ fw_last'[1].watcher = w

MaxVerifiers == 4

\* What the response of a verifier says about its confidence.
Phrases == {"high confidence", "low confidence", "none"}

\* Lines 142-146: the confidence of a vote, in hundredths.
ConfidenceOf(vote, phrase) ==
    IF phrase = "high confidence" THEN 95
    ELSE IF phrase = "low confidence" THEN 50
    ELSE IF vote THEN 80 ELSE 60

\* The result of one verifier: a VerificationVote or the exception raised.
VerifierVote(vote, phrase) ==
    [kind |-> "vote", vote |-> vote, confidence |-> ConfidenceOf(vote, phrase)]
VerifierRaised == [kind |-> "exception", vote |-> FALSE, confidence |-> 0]
VerifierPending == [kind |-> "pending", vote |-> FALSE, confidence |-> 0]

VerifierOutcomes ==
    {VerifierRaised} \cup
    { VerifierVote(vote, phrase) : vote \in BOOLEAN, phrase \in Phrases }

VerifyInit ==
    /\ \E num_verifiers \in 1..MaxVerifiers :
         vf_outcomes \in [1..num_verifiers -> VerifierOutcomes]
    /\ vf_votes = [i \in DOMAIN vf_outcomes |-> VerifierPending]
    /\ vf_pc = "gather"
    /\ vf_result = None

VerifyIdle ==
    /\ vf_outcomes = << >>
    /\ vf_votes = << >>
    /\ vf_pc = "idle"
    /\ vf_result = None

\* _run_single_verifier of verifier i ends (lines 90-158): its vote, or
\* the exception it re-raises, takes its place in the results of gather.
RunSingleVerifier(i) ==
    /\ vf_pc = "gather"
    /\ vf_votes[i] = VerifierPending
    /\ vf_votes' = [vf_votes EXCEPT ![i] = vf_outcomes[i]]
    /\ UNCHANGED <<vf_outcomes, vf_pc, vf_result>>
    /\ UNCHANGED <<mkVars, orchVars, memVars, chunkVars, searchVars,
                   quotaVars, amVars, sjVars, exVars, igVars, ldVars,
                   wcVars, fwVars>>

\* The sum of the confidences of a list of votes.
RECURSIVE SumConfidence(_)
SumConfidence(vote_list) ==
    IF vote_list = << >>
    THEN 0
    ELSE vote_list[1].confidence + SumConfidence(Tail(vote_list))

\* A tie-break that needs the positive side to be strictly ahead.
StrictTieBreak(positive_confidence, negative_confidence) ==
    positive_confidence > negative_confidence

\* Line 200: the tie-break.
TieBreak(positive_confidence, negative_confidence) ==
    positive_confidence >= negative_confidence

\* _calculate_consensus (lines 173-214).
CalculateConsensus(vote_list) ==
    IF vote_list = << >>
    THEN [verified |-> FALSE, total_votes |-> 0, positive_votes |-> 0,
          negative_votes |-> 0, positive_confidence |-> 0,
          negative_confidence |-> 0]
    ELSE LET positive == SelectSeq(vote_list, LAMBDA v : v.vote)
             negative == SelectSeq(vote_list, LAMBDA v : ~v.vote)
             positive_votes == Len(positive)
             negative_votes == Len(vote_list) - positive_votes
             positive_confidence == SumConfidence(positive)
             negative_confidence == SumConfidence(negative)
         IN  [verified |->
                  IF positive_votes > negative_votes THEN TRUE
                  ELSE IF negative_votes > positive_votes THEN FALSE
                  ELSE TieBreak(positive_confidence, negative_confidence),
              total_votes |-> Len(vote_list),
              positive_votes |-> positive_votes,
              negative_votes |-> negative_votes,
              positive_confidence |-> positive_confidence,
              negative_confidence |-> negative_confidence]

\* gather has every result (line 61); the exceptions are filtered out
\* (line 64); RuntimeError when no vote is left (lines 66-68), else the
\* consensus of the votes (line 71).
VerifyReturns ==
    /\ vf_pc = "gather"
    /\ \A i \in DOMAIN vf_votes : vf_votes[i] # VerifierPending
    /\ LET valid_votes == SelectSeq(vf_votes, LAMBDA v : v.kind = "vote")
       IN  IF valid_votes = << >>
           THEN /\ vf_pc' = "failed"
                /\ vf_result' = None
           ELSE /\ vf_pc' = "returned"
                /\ vf_result' = Some(CalculateConsensus(valid_votes))
    /\ UNCHANGED <<vf_outcomes, vf_votes>>
    /\ UNCHANGED <<mkVars, orchVars, memVars, chunkVars, searchVars,
                   quotaVars, amVars, sjVars, exVars, igVars, ldVars,
                   wcVars, fwVars>>

VerifyNext ==
    \/ \E i \in DOMAIN vf_votes : RunSingleVerifier(i)
    \/ VerifyReturns

\* The verifiers that voted for (TRUE) or against (FALSE).
C39_Voters(vote) ==
    { i \in DOMAIN vf_outcomes :
        vf_outcomes[i].kind = "vote" /\ vf_outcomes[i].vote = vote }

\* The summed confidence, in hundredths, of a set of verifiers: what
\* they add to 95, 80, 60 and 50 times the number of votes of that
\* confidence.
C39_Confidence(voters) ==
    LET count(c) ==
            Cardinality({ i \in voters : vf_outcomes[i].confidence = c })
    IN  95 * count(95) + 80 * count(80) + 60 * count(60) + 50 * count(50)

LibIdle ==
    /\ ChunkIdle /\ SearchIdle /\ QuotaIdle /\ AppMakerIdle /\ StrictJsonIdle
    /\ ExportIdle /\ IngestIdle /\ ListIdle /\ WatchIdle /\ FileShareIdle
    /\ VerifyIdle

\* One call of first_to_ahead_by_k; the orchestrator is idle.
MakerSpecInit == MakerInit /\ OrchIdle /\ MemIdle /\ LibIdle
MakerSpec == MakerSpecInit /\ [][MakerNext]_vars

\* The orchestrator service; no MAKER call is modelled in it.
OrchSpecInit == OrchInit /\ MakerIdle /\ MemIdle /\ LibIdle
OrchSpec == OrchSpecInit /\ [][OrchNext]_vars

\* The orchestrator service with its scheduling: the event loop runs every
\* coroutine that can take a step, and a worker call ends (it returns, or
\* raises at the latest on the 300 s timeout of call_agent).
OrchFairness ==
    /\ WF_vars(\E t \in BagToSet(tasks) : Begin(t))
    /\ WF_vars(\E t \in BagToSet(tasks) : Continue(t))
    /\ WF_vars(\E t \in BagToSet(tasks) : AgentReturns(t) \/ AgentFails(t))
    /\ WF_vars(\E t \in BagToSet(tasks) : WriteResult(t))
    /\ WF_vars(\E t \in BagToSet(tasks) : Fail(t))
OrchFairSpec == OrchSpecInit /\ [][OrchNext]_vars /\ OrchFairness

\* The memory agent served by MaxInstances processes on one store; the
\* clock stands still and no sweep runs.
MemSpecInit == MemInit(MaxInstances) /\ MakerIdle /\ OrchIdle /\ LibIdle
MemSpec == MemSpecInit /\ [][StoreNext]_vars

\* The memory agent served by one process, its operations running one at a
\* time; the clock stands still and no sweep runs.
SeqSpecInit == MemInit(1) /\ MakerIdle /\ OrchIdle /\ LibIdle
SeqSpec == SeqSpecInit /\ [][StoreNext]_vars

\* The memory agent served by one process, with the clock and the sweep.
SweepSpecInit == MemInit(1) /\ MakerIdle /\ OrchIdle /\ LibIdle
SweepSpec == SweepSpecInit /\ [][MemNext]_vars

\* One call of semantic_chunk.
ChunkSpecInit ==
    /\ ChunkInit
    /\ MakerIdle /\ OrchIdle /\ MemIdle
    /\ SearchIdle /\ QuotaIdle /\ AppMakerIdle /\ StrictJsonIdle /\ ExportIdle
    /\ IngestIdle /\ ListIdle /\ WatchIdle /\ FileShareIdle /\ VerifyIdle
ChunkSpec == ChunkSpecInit /\ [][ChunkNext]_vars

\* One search request; every supplied filter, hybrid or not.
SearchSpecInit ==
    /\ SearchInit
    /\ MakerIdle /\ OrchIdle /\ MemIdle
    /\ ChunkIdle /\ QuotaIdle /\ AppMakerIdle /\ StrictJsonIdle /\ ExportIdle
    /\ IngestIdle /\ ListIdle /\ WatchIdle /\ FileShareIdle /\ VerifyIdle
SearchSpec == SearchSpecInit /\ [][SearchNext]_vars

\* One hybrid search request on every ranking of the two arms.
RrfSpecInit ==
    /\ RrfInit
    /\ MakerIdle /\ OrchIdle /\ MemIdle
    /\ ChunkIdle /\ QuotaIdle /\ AppMakerIdle /\ StrictJsonIdle /\ ExportIdle
    /\ IngestIdle /\ ListIdle /\ WatchIdle /\ FileShareIdle /\ VerifyIdle
RrfSpec == RrfSpecInit /\ [][SearchNext]_vars

\* The rate limiter of one process and the passing of time.
QuotaSpecInit ==
    /\ QuotaInit
    /\ MakerIdle /\ OrchIdle /\ MemIdle
    /\ ChunkIdle /\ SearchIdle /\ AppMakerIdle /\ StrictJsonIdle /\ ExportIdle
    /\ IngestIdle /\ ListIdle /\ WatchIdle /\ FileShareIdle /\ VerifyIdle
QuotaSpec == QuotaSpecInit /\ [][QuotaNext]_vars

\* One call of MAKER.first_to_ahead_by_k with its agents.
AppMakerSpecInit ==
    /\ AppMakerInit
    /\ MakerIdle /\ OrchIdle /\ MemIdle
    /\ ChunkIdle /\ SearchIdle /\ QuotaIdle /\ StrictJsonIdle /\ ExportIdle
    /\ IngestIdle /\ ListIdle /\ WatchIdle /\ FileShareIdle /\ VerifyIdle
AppMakerSpec == AppMakerSpecInit /\ [][AppMakerNext]_vars

\* One call of strict_json_parser on a response.
StrictJsonSpecInit ==
    /\ StrictJsonInit
    /\ MakerIdle /\ OrchIdle /\ MemIdle
    /\ ChunkIdle /\ SearchIdle /\ QuotaIdle /\ AppMakerIdle /\ ExportIdle
    /\ IngestIdle /\ ListIdle /\ WatchIdle /\ FileShareIdle /\ VerifyIdle
StrictJsonSpec == StrictJsonSpecInit /\ [][StrictJsonNext]_vars

\* One JSON export and the parse of its text.
ExportSpecInit ==
    /\ ExportInit
    /\ MakerIdle /\ OrchIdle /\ MemIdle
    /\ ChunkIdle /\ SearchIdle /\ QuotaIdle /\ AppMakerIdle /\ StrictJsonIdle
    /\ IngestIdle /\ ListIdle /\ WatchIdle /\ FileShareIdle /\ VerifyIdle
ExportSpec == ExportSpecInit /\ [][ExportNext]_vars

\* The ingestion of one file by a connector.
IngestSpecInit ==
    /\ IngestInit
    /\ MakerIdle /\ OrchIdle /\ MemIdle
    /\ ChunkIdle /\ SearchIdle /\ QuotaIdle /\ AppMakerIdle /\ StrictJsonIdle
    /\ ExportIdle /\ ListIdle /\ WatchIdle /\ FileShareIdle /\ VerifyIdle
IngestSpec == IngestSpecInit /\ [][IngestNext]_vars

\* One call of list_drive_files_recursive on a folder graph.
ListSpecInit ==
    /\ ListInit
    /\ MakerIdle /\ OrchIdle /\ MemIdle
    /\ ChunkIdle /\ SearchIdle /\ QuotaIdle /\ AppMakerIdle /\ StrictJsonIdle
    /\ ExportIdle /\ IngestIdle /\ WatchIdle /\ FileShareIdle /\ VerifyIdle
ListSpec == ListSpecInit /\ [][ListFilesNext]_vars

\* The watch channels of the Drive folders and their renewal.
WatchSpecInit ==
    /\ WatchInit
    /\ MakerIdle /\ OrchIdle /\ MemIdle
    /\ ChunkIdle /\ SearchIdle /\ QuotaIdle /\ AppMakerIdle /\ StrictJsonIdle
    /\ ExportIdle /\ IngestIdle /\ ListIdle /\ FileShareIdle /\ VerifyIdle
WatchSpec == WatchSpecInit /\ [][WatchNext]_vars

\* The file-share watchers and their pollers over a changing share.
FileShareSpecInit ==
    /\ FileShareInit
    /\ MakerIdle /\ OrchIdle /\ MemIdle
    /\ ChunkIdle /\ SearchIdle /\ QuotaIdle /\ AppMakerIdle /\ StrictJsonIdle
    /\ ExportIdle /\ IngestIdle /\ ListIdle /\ WatchIdle /\ VerifyIdle
FileShareSpec == FileShareSpecInit /\ [][FileShareNext]_vars

\* One call of VerifierAgent.verify over every outcome of its verifiers.
VerifySpecInit ==
    /\ VerifyInit
    /\ MakerIdle /\ OrchIdle /\ MemIdle
    /\ ChunkIdle /\ SearchIdle /\ QuotaIdle /\ AppMakerIdle /\ StrictJsonIdle
    /\ ExportIdle /\ IngestIdle /\ ListIdle /\ WatchIdle /\ FileShareIdle
VerifySpec == VerifySpecInit /\ [][VerifyNext]_vars

====
